---- MODULE Spec2Model ----
(***************************************************************************)
(* Verification model of the Qt Quick 3D default-material shader key       *)
(* (qssgrendershaderkeys_p.h), the shader cache key                        *)
(* (qssgrendershadercache_p.h) and the OpenXR manager life cycle           *)
(* (QOpenXRManager).                                                       *)
(*                                                                         *)
(* A quint32 is modelled as the set of its set bit numbers (a subset of    *)
(* 0..31): & is intersection, | is union, ~ is the complement in 0..31,    *)
(* and a shift drops the bits that leave the word.  A QByteArray is a      *)
(* string; positions are 0-based as in the source.                         *)
(***************************************************************************)
EXTENDS Integers, Sequences, FiniteSets, TLC

VARIABLES
    \* QSSGShaderDefaultMaterialKeyProperties::init()
    visitIdx,        \* number of properties visited so far by visitProperties
    m_offset,        \* OffsetVisitor::m_offset
    offset,          \* QSSGShaderKeyPropertyBase::offset of every property
    stringSize,      \* StringSizeVisitor::size
    initDone,        \* init() has returned (its Q_ASSERT was evaluated)
    \* QSSGShaderDefaultMaterialKey
    m_dataBuffer,    \* the key's data buffer: word index -> quint32
    m_featureSetHash,
    otherKey,        \* a second key: [m_dataBuffer, m_featureSetHash]
    lastValue,       \* per property: the last value passed to its setter
    lastOp,          \* the last setter call: [prop, value]
    nSets,           \* number of setter calls made
    nFlips,          \* number of setter calls made on otherKey
    \* QSSGShaderCache
    m_rhiShaders,    \* the cache's map, as a set of [key, pipeline]
    nextPipeline,    \* identity of the next pipeline object to be created
    compiles,        \* per requested (key, features): compilations triggered
    returned,        \* per requested (key, features): pipelines returned so far
    nRequests,       \* number of getRhiShaderPipeline calls made
    \* QOpenXRManager
    xrPhase,         \* "constructed", "initialized", "initFailed" or "tornDown"
    m_graphics,      \* the graphics backend object exists
    m_instance, m_debugMessenger, m_session,       \* handles, 0 is XR_NULL_HANDLE
    m_appSpace, m_viewSpace,
    m_passthroughFeature, m_passthroughLayer,
    m_swapchains,    \* sequence of swapchain handles
    m_spaceExtension, m_inputManager,              \* the pointer is non-null
    m_enablePassthrough, m_passthroughSupported, m_spaceExtensionSupported,
    m_multiviewRendering,
    nextHandle,      \* the handle the runtime hands out next
    liveHandles,     \* handles created by the runtime and not destroyed yet
    xrCreated,       \* the resources created so far, in creation order
    xrReleased,      \* the releases made by the last teardown(), in call order
    nTeardowns,      \* number of teardown() calls made
    nXrCalls,        \* number of setPassthroughEnabled calls made
    \* QOpenXRManager: session state, reference spaces and the tick
    m_sessionState,  \* the XrSessionState of the last session-state event read
    m_sessionRunning,
    m_requestedReferenceSpace, m_referenceSpace,
    m_availableReferenceSpace,  \* set of the advertised reference space types
    m_isEmulatingLocalFloor, m_isFloorResetPending,
    m_environmentBlendMode,
    m_views,         \* m_views.size(): the number of views
    eventQueue,      \* the events pending in the runtime, oldest first
    sessionBegun,    \* the runtime's side: the session was begun and not ended
    sessionLog,      \* the session-state events handled for this session so far
    lastSetup,       \* what the last setupAppSpace() call was given and did
    nStageLocates,   \* number of times the stage space was located in the local space
    floorResets,     \* the results of the resetEmulatedFloorHeight() calls so far
    tick,            \* what the last processXrEvents() call did
    nTicks,          \* number of processXrEvents() calls made
    nEvents,         \* number of events the runtime has queued
    \* QOpenXRManager: what initialize() reports and what a frame leaves behind
    m_errorString,   \* "" when empty
    lastInitialize,  \* what the initialize() call was given and returned
    m_swapchainArraySize,  \* arraySize of each entry of m_swapchains, 0: not assigned
    m_previousTime,  \* predicted display time of the last rendered frame, in ns
    camera,          \* position (cm) and rotation of the XrOrigin's head camera
    appSpaceCreateInfo, \* the XrReferenceSpaceCreateInfo m_appSpace was created with
    m_xrOrigin,      \* whether m_xrOrigin points to an XrOrigin (is not null)
    crashed,         \* whether the process has died
    \* RotationData
    rotation,        \* the RotationData: [m_quatRot, m_eulerRot, m_dirty]
    rotationOp,      \* the last operation on it: [op, value, before, result]
    nRotationOps,    \* number of operations made on it
    \* QPRand
    m_generator,     \* state of the QRandomGenerator
    m_size,          \* length of m_randomList
    m_index,         \* position of the last value handed out by get()
    m_deterministic,
    m_randomList,    \* the floats drawn by init()
    gets,            \* the get(particleIndex, user) calls since init(): arguments, state, value
    nGets,           \* number of get calls made since init()
    \* UniformModel
    m_uniformTable,  \* the UniformTable the model points to: [null, rows]
    uniformOp,       \* the last call on the model: [op, arg, result]
    nUniformOps      \* number of calls made on the model

initVars == <<visitIdx, m_offset, offset, stringSize, initDone>>
keyVars == <<m_dataBuffer, m_featureSetHash, otherKey, lastValue, lastOp, nSets, nFlips>>
cacheVars == <<m_rhiShaders, nextPipeline, compiles, returned, nRequests>>
xrHandleVars == <<m_instance, m_debugMessenger, m_session, m_appSpace, m_viewSpace,
                  m_passthroughFeature, m_passthroughLayer, m_swapchains>>
spaceVars == <<m_requestedReferenceSpace, m_referenceSpace, m_availableReferenceSpace,
               m_isEmulatingLocalFloor, m_isFloorResetPending, lastSetup, nStageLocates,
               floorResets>>
frameVars == <<m_previousTime, camera, appSpaceCreateInfo, m_xrOrigin, crashed>>
tickVars == <<m_sessionState, m_sessionRunning, spaceVars, m_environmentBlendMode, m_views,
              eventQueue, sessionBegun, sessionLog, tick, nTicks, nEvents, frameVars>>
xrVars == <<xrPhase, m_graphics, xrHandleVars, m_spaceExtension, m_inputManager,
            m_enablePassthrough, m_passthroughSupported, m_spaceExtensionSupported,
            m_multiviewRendering, nextHandle, liveHandles, xrCreated, xrReleased,
            nTeardowns, nXrCalls, tickVars, m_errorString, m_swapchainArraySize,
            lastInitialize>>
rotVars == <<rotation, rotationOp, nRotationOps>>
randVars == <<m_generator, m_size, m_index, m_deterministic, m_randomList, gets, nGets>>
uniformVars == <<m_uniformTable, uniformOp, nUniformOps>>
toolVars == <<randVars, uniformVars>>
vars == <<initVars, keyVars, cacheVars, xrVars, rotVars, toolVars>>

(***************************************************************************)
(* Bounds of the model.                                                    *)
(***************************************************************************)
MaxSets == 2
MaxFlips == 2
MaxRequests == 3
MaxViews == 2
MaxTeardowns == 2
MaxXrCalls == 2
MaxTicks == 3
MaxEvents == 3

(***************************************************************************)
(* Program constants.                                                      *)
(***************************************************************************)
LightCount == 15
SingleChannelImageCount == 5
ImageMapCount == 15
DataBufferSize == 10
KeyCapacityBits == 320
WordBits == 32

Min(S) == CHOOSE x \in S : \A y \in S : x <= y
Max(S) == CHOOSE x \in S : \A y \in S : x >= y

(***************************************************************************)
(* snprintf("%u"): the decimal text of a number.                           *)
(***************************************************************************)
DigitChars == <<"0", "1", "2", "3", "4", "5", "6", "7", "8", "9">>

RECURSIVE toStr(_)
toStr(item) ==
    IF item < 10 THEN DigitChars[item + 1]
    ELSE toStr(item \div 10) \o DigitChars[(item % 10) + 1]

(***************************************************************************)
(* The declared properties, in the order visitProperties visits them.      *)
(***************************************************************************)
BitWidthOf(kind) ==
    CASE kind = "Boolean" -> 1
      [] kind = "Unsigned4" -> 4
      [] kind = "Unsigned16" -> 16
      [] kind = "TextureChannel" -> 2
      [] kind = "TextureSwizzle" -> 5
      [] kind = "ImageMap" -> 6
      [] kind = "SpecularModel" -> 2
      [] kind = "AlphaMode" -> 2
      [] kind = "VertexAttribute" -> 8

Prop(name, kind) == [name |-> name, kind |-> kind, BitWidth |-> BitWidthOf(kind)]

ImageMapNames ==
    << "diffuseMap", "emissiveMap", "specularMap", "baseColorMap", "bumpMap",
       "specularAmountMap", "normalMap", "lightmapIndirect", "lightmapRadiosity",
       "lightmapShadow", "opacityMap", "roughnessMap", "metalnessMap",
       "occlusionMap", "translucencyMap" >>

LightFlagProps(suffix) ==
    [i \in 1..LightCount |-> Prop("light" \o toStr(i - 1) \o suffix, "Boolean")]

ImageProps ==
    [i \in 1..(2 * ImageMapCount) |->
        IF i % 2 = 1
        THEN Prop(ImageMapNames[(i + 1) \div 2], "ImageMap")
        ELSE Prop(ImageMapNames[i \div 2] \o "_swizzle", "TextureSwizzle")]

ChannelProps ==
    [i \in 1..SingleChannelImageCount |->
        Prop(ImageMapNames[ImageMapCount - SingleChannelImageCount + i] \o "_channel",
             "TextureChannel")]

visitProperties ==
    << Prop("hasLighting", "Boolean"), Prop("hasIbl", "Boolean"),
       Prop("lightCount", "Unsigned4") >>
    \o LightFlagProps("HasPosition") \o LightFlagProps("HasSpot")
    \o LightFlagProps("HasArea") \o LightFlagProps("HasShadow")
    \o << Prop("specularEnabled", "Boolean"), Prop("fresnelEnabled", "Boolean"),
          Prop("vertexColorsEnabled", "Boolean"),
          Prop("specularModel", "SpecularModel") >>
    \o ImageProps \o ChannelProps
    \o << Prop("boneCount", "Unsigned16"), Prop("isDoubleSided", "Boolean"),
          Prop("overridesPosition", "Boolean"),
          Prop("usesProjectionMatrix", "Boolean"),
          Prop("usesInverseProjectionMatrix", "Boolean"),
          Prop("usesPointsTopology", "Boolean"), Prop("usesVarColor", "Boolean"),
          Prop("alphaMode", "AlphaMode"),
          Prop("vertexAttributes", "VertexAttribute"),
          Prop("usesFloatJointIndices", "Boolean") >>

NumProps == Len(visitProperties)
PropIds == 1..NumProps

(***************************************************************************)
(* OffsetVisitor::visit: the offset given to a property of width BitWidth  *)
(* when the visitor stands at m_offset, and the visitor's next m_offset.   *)
(***************************************************************************)
OffsetVisitor_visit_NoBump(mOffset, BitWidth) ==
    [offset |-> mOffset, m_offset |-> mOffset + BitWidth]

OffsetVisitor_visit_Early(mOffset, BitWidth) ==
    LET bit == mOffset % WordBits
        at == IF bit + BitWidth >= 31 THEN mOffset + (WordBits - bit) ELSE mOffset
    IN  [offset |-> at, m_offset |-> at + BitWidth]

OffsetVisitor_visit_UsesLastBit(mOffset, BitWidth) ==
    LET bit == mOffset % WordBits
        at == IF bit + BitWidth > WordBits THEN mOffset + (WordBits - bit) ELSE mOffset
    IN  [offset |-> at, m_offset |-> at + BitWidth]

OffsetVisitor_visit(mOffset, BitWidth) ==
    LET bit == mOffset % WordBits
        at == IF bit + BitWidth > 31 THEN mOffset + (WordBits - bit) ELSE mOffset
    IN  [offset |-> at, m_offset |-> at + BitWidth]

(***************************************************************************)
(* init() as a fold of the visitor over the property list: the state of    *)
(* the property objects once the constructor has returned.                 *)
(***************************************************************************)
\* the visits of properties lo..hi, in order, by a visitor standing at mOffset
RECURSIVE InitOffsets(_, _, _)
InitOffsets(lo, hi, mOffset) ==
    IF lo = hi
    THEN LET r == OffsetVisitor_visit(mOffset, visitProperties[lo].BitWidth)
         IN  [offs |-> <<r.offset>>, m_offset |-> r.m_offset]
    ELSE LET half == (lo + hi) \div 2
             first == InitOffsets(lo, half, mOffset)
             second == InitOffsets(half + 1, hi, first.m_offset)
         IN  [offs |-> first.offs \o second.offs, m_offset |-> second.m_offset]

ConstructedOffsets == InitOffsets(1, NumProps, 0)

\* the sum of the declared widths of properties lo..hi
RECURSIVE SumBitWidths(_, _)
SumBitWidths(lo, hi) ==
    IF lo = hi THEN visitProperties[lo].BitWidth
    ELSE SumBitWidths(lo, (lo + hi) \div 2) + SumBitWidths(((lo + hi) \div 2) + 1, hi)

(***************************************************************************)
(* QSSGShaderKeyPropertyBase                                               *)
(***************************************************************************)
getIdx(off) == off \div WordBits

(***************************************************************************)
(* quint32 arithmetic on sets of bit numbers.                              *)
(***************************************************************************)
AllBits == 0..(WordBits - 1)
BitNot(w) == AllBits \ w
Shl(w, n) == {b + n : b \in w} \cap AllBits
Shr(w, n) == {b - n : b \in w} \cap AllBits
\* the quint32 holding the number n (n < 2^31) and the number a quint32 holds
BitsOf(n) == {b \in 0..30 : (n \div (2 ^ b)) % 2 = 1}
RECURSIVE ValueOf(_)
ValueOf(w) == IF w = {} THEN 0 ELSE LET b == Max(w) IN (2 ^ b) + ValueOf(w \ {b})
\* (1 << TBitWidth) - 1
StartValue(BitWidth) == 0..(BitWidth - 1)

getMaskTemplate(off, BitWidth) == Shl(StartValue(BitWidth), off % WordBits)

(***************************************************************************)
(* QSSGShaderKeyBoolean                                                    *)
(***************************************************************************)
Boolean_setValue(inDataStore, off, inValue) ==
    LET idx == getIdx(off)
        mask == getMaskTemplate(off, 1)
        target == inDataStore[idx]
    IN  [inDataStore EXCEPT ![idx] =
            IF inValue THEN target \cup mask ELSE target \cap BitNot(mask)]

Boolean_getValue(inDataStore, off) ==
    (inDataStore[getIdx(off)] \cap getMaskTemplate(off, 1)) # {}

(***************************************************************************)
(* QSSGShaderKeyUnsigned<TBitWidth>; inValue and the result are quint32.   *)
(***************************************************************************)
Unsigned_setValue_WideMask(inDataStore, off, BitWidth, inValue) ==
    LET bit == off % WordBits
        idx == getIdx(off)
        target == inDataStore[idx]
    IN  [inDataStore EXCEPT ![idx] =
            (target \cap BitNot(getMaskTemplate(off, BitWidth)))
                \cup Shl(inValue \cap StartValue(BitWidth + 1), bit)]

Unsigned_setValue_NarrowMask(inDataStore, off, BitWidth, inValue) ==
    LET bit == off % WordBits
        idx == getIdx(off)
        target == inDataStore[idx]
    IN  [inDataStore EXCEPT ![idx] =
            (target \cap BitNot(getMaskTemplate(off, BitWidth)))
                \cup Shl(inValue \cap StartValue(BitWidth - 1), bit)]

Unsigned_setValue(inDataStore, off, BitWidth, inValue) ==
    LET startValue == StartValue(BitWidth)
        masked == inValue \cap startValue
        bit == off % WordBits
        mask == getMaskTemplate(off, BitWidth)
        idx == getIdx(off)
        shifted == Shl(masked, bit)
        target == inDataStore[idx]
        inverseMask == BitNot(mask)
    IN  [inDataStore EXCEPT ![idx] = (target \cap inverseMask) \cup shifted]

Unsigned_getValue(inDataStore, off, BitWidth) ==
    LET idx == getIdx(off)
        bit == off % WordBits
        mask == getMaskTemplate(off, BitWidth)
        target == inDataStore[idx]
    IN  Shr(target \cap mask, bit)

(***************************************************************************)
(* setBitValue of QSSGShaderKeyImageMap, QSSGShaderKeyTextureSwizzle and   *)
(* QSSGShaderKeyVertexAttribute: read, change one bit, write.              *)
(***************************************************************************)
getBitValue(inKeySet, off, BitWidth, bitNo) ==
    (Unsigned_getValue(inKeySet, off, BitWidth) \cap {bitNo}) # {}

setBitValue(inKeySet, off, BitWidth, bitNo, inValue) ==
    LET theValue == Unsigned_getValue(inKeySet, off, BitWidth)
        mask == {bitNo}
        newValue == IF inValue THEN theValue \cup mask ELSE theValue \cap BitNot(mask)
    IN  Unsigned_setValue(inKeySet, off, BitWidth, newValue)

(***************************************************************************)
(* QByteArray operations; positions are 0-based.  at(size) is the          *)
(* terminating NUL, modelled as the empty string.                          *)
(***************************************************************************)
CharAt(str, i) == IF 0 <= i /\ i < Len(str) THEN SubSeq(str, i + 1, i + 1) ELSE ""
mid(str, pos, len) == SubSeq(str, pos + 1, Min({pos + len, Len(str)}))
left(str, len) == SubSeq(str, 1, Min({len, Len(str)}))
right(str, len) == SubSeq(str, Len(str) - Min({len, Len(str)}) + 1, Len(str))

\* QByteArray::indexOf: the first position of name in str, or -1
indexOf(str, name) ==
    LET at == {i \in 0..(Len(str) - Len(name)) :
                  SubSeq(str, i + 1, i + Len(name)) = name}
    IN  IF at = {} THEN -1 ELSE Min(at)

\* the loop "while (str[begin + n] != ch) n++": the n it ends with (the
\* terminator is always present in the strings toString produces)
scanTo(str, begin, ch) ==
    LET at == {i \in begin..Len(str) : CharAt(str, i) = ch}
    IN  IF at = {} THEN Len(str) - begin ELSE Min(at) - begin

\* QByteArray::split: the parts between the separators, empty parts kept
split(str, sep) ==
    LET seps == {i \in 1..Len(str) : SubSeq(str, i, i) = sep}
        n == Cardinality(seps)
        bound(k) == IF k = 0 THEN 0
                    ELSE IF k = n + 1 THEN Len(str) + 1
                    ELSE CHOOSE i \in seps : Cardinality({j \in seps : j <= i}) = k
    IN  [k \in 1..(n + 1) |-> SubSeq(str, bound(k - 1) + 1, bound(k) - 1)]

isDigit(ch) == \E d \in 1..10 : DigitChars[d] = ch
digitValue(ch) == (CHOOSE d \in 1..10 : DigitChars[d] = ch) - 1

\* the loop "while (s[i].isDigit()) i++"
digitRun(s) ==
    LET stop == {i \in 0..Len(s) : ~isDigit(CharAt(s, i))}
    IN  Min(stop)

\* QByteArray::toInt of a run of digits: 0 when empty or out of int range
RECURSIVE toIntAcc(_, _)
toIntAcc(s, acc) ==
    IF acc < 0 THEN -1
    ELSE IF s = "" THEN acc
    ELSE LET d == digitValue(CharAt(s, 0))
         IN  IF acc > (2147483647 - d) \div 10 THEN -1
             ELSE toIntAcc(right(s, Len(s) - 1), acc * 10 + d)
toInt(s) == LET v == toIntAcc(s, 0) IN IF v < 0 THEN 0 ELSE v

(***************************************************************************)
(* QSSGShaderKeyPropertyBase::internalToString / getBoolValue              *)
(***************************************************************************)
internalToString(ioStr, name, inBuffer) == ioStr \o name \o "=" \o inBuffer

internalToStringBool(ioStr, name, inValue) ==
    IF inValue THEN ioStr \o name \o "=" \o "true" ELSE ioStr

getBoolValue(str, name) ==
    LET index == indexOf(str, name)
    IN  IF index < 0 THEN FALSE
        ELSE IF CharAt(str, index + Len(name)) # "=" THEN FALSE
        ELSE mid(str, index + Len(name) + 1, 4) = "true"

(***************************************************************************)
(* toString of each property type: ioStr with the property's text appended *)
(***************************************************************************)
Boolean_toString(ioStr, name, off, inKeySet) ==
    internalToStringBool(ioStr, name, Boolean_getValue(inKeySet, off))

Unsigned_toString(ioStr, name, off, BitWidth, inKeySet) ==
    internalToString(ioStr, name, toStr(ValueOf(Unsigned_getValue(inKeySet, off, BitWidth))))

textureChannelToChar == <<"R", "G", "B", "A">>

TextureChannel_toString(ioStr, name, off, inKeySet) ==
    ioStr \o name \o "="
          \o textureChannelToChar[ValueOf(Unsigned_getValue(inKeySet, off, 2)) + 1]

\* the sub-flags of the brace-listed types, by bit number 0, 1, 2, ...
SwizzleFlagNames == <<"noswizzle", "l8swizzle", "a8swizzle", "l8a8swizzle", "l16swizzle">>
ImageMapFlagNames == <<"enabled", "envMap", "lightProbe", "invertUV", "premultiplied", "identity">>
VertexAttributeFlagNames ==
    <<"position", "normal", "texcoord0", "texcoord1", "tangent", "binormal", "color",
      "joint&weight">>

\* internalToString of the flags first..last, a ';' appended between two
RECURSIVE flagsToString(_, _, _, _, _, _, _)
flagsToString(ioStr, names, first, last, off, BitWidth, inKeySet) ==
    LET one == internalToStringBool(ioStr, names[first],
                                    getBitValue(inKeySet, off, BitWidth, first - 1))
    IN  IF first = last THEN one
        ELSE flagsToString(one \o ";", names, first + 1, last, off, BitWidth, inKeySet)

TextureSwizzle_toString(ioStr, name, off, inKeySet) ==
    flagsToString(ioStr \o name \o "={", SwizzleFlagNames, 1, 5, off, 5, inKeySet) \o "}"

ImageMap_toString(ioStr, name, off, inKeySet) ==
    flagsToString(ioStr \o name \o "={", ImageMapFlagNames, 1, 6, off, 6, inKeySet) \o "}"

\* the enumerators toString knows, by value 0, 1, ...
SpecularModelNames == <<"Default", "KGGX">>
AlphaModeNames == <<"Default", "Mask", "Blend">>

enumText(names, value) == IF value + 1 \in DOMAIN names THEN names[value + 1] ELSE ""

SpecularModel_toString(ioStr, name, off, inKeySet) ==
    ioStr \o name \o "="
          \o enumText(SpecularModelNames, ValueOf(Unsigned_getValue(inKeySet, off, 2)))
          \o ";"

AlphaMode_toString(ioStr, name, off, inKeySet) ==
    ioStr \o name \o "="
          \o enumText(AlphaModeNames, ValueOf(Unsigned_getValue(inKeySet, off, 2)))
          \o ";"

VertexAttribute_toString(ioStr, name, off, inKeySet) ==
    internalToStringBool(
        flagsToString(ioStr \o name \o "={", VertexAttributeFlagNames, 1, 7, off, 8, inKeySet)
            \o "}",
        VertexAttributeFlagNames[8], getBitValue(inKeySet, off, 8, 7)) \o "}"

\* prop.toString(m_str, m_keyStore), dispatched on the property's type
Prop_toString(ioStr, prop, off, inKeySet) ==
    CASE prop.kind = "Boolean" -> Boolean_toString(ioStr, prop.name, off, inKeySet)
      [] prop.kind \in {"Unsigned4", "Unsigned16"} ->
            Unsigned_toString(ioStr, prop.name, off, prop.BitWidth, inKeySet)
      [] prop.kind = "TextureChannel" -> TextureChannel_toString(ioStr, prop.name, off, inKeySet)
      [] prop.kind = "TextureSwizzle" -> TextureSwizzle_toString(ioStr, prop.name, off, inKeySet)
      [] prop.kind = "ImageMap" -> ImageMap_toString(ioStr, prop.name, off, inKeySet)
      [] prop.kind = "SpecularModel" -> SpecularModel_toString(ioStr, prop.name, off, inKeySet)
      [] prop.kind = "AlphaMode" -> AlphaMode_toString(ioStr, prop.name, off, inKeySet)
      [] prop.kind = "VertexAttribute" ->
            VertexAttribute_toString(ioStr, prop.name, off, inKeySet)

(***************************************************************************)
(* QSSGShaderDefaultMaterialKey::StringVisitor and toString                *)
(***************************************************************************)
StringVisitor_visit_KeepSemicolon(m_str, prop, off, m_keyStore) ==
    Prop_toString(IF Len(m_str) > 0 THEN m_str \o ";" ELSE m_str, prop, off, m_keyStore)

StringVisitor_visit(m_str, prop, off, m_keyStore) ==
    LET originalSize == Len(m_str)
        withSep == IF Len(m_str) > 0 THEN m_str \o ";" ELSE m_str
        after == Prop_toString(withSep, prop, off, m_keyStore)
    IN  IF originalSize > 0 /\ Len(after) = originalSize + 1
        THEN left(after, originalSize)
        ELSE after

\* the visits of properties lo..hi, in order, applied to m_str
RECURSIVE toStringRange(_, _, _, _, _)
toStringRange(lo, hi, m_str, offs, inKeySet) ==
    IF lo = hi THEN StringVisitor_visit(m_str, visitProperties[lo], offs[lo], inKeySet)
    ELSE LET half == (lo + hi) \div 2
             first == toStringRange(lo, half, m_str, offs, inKeySet)
         IN  \* the test makes the visits of the first half happen first
             IF Len(first) >= 0 THEN toStringRange(half + 1, hi, first, offs, inKeySet)
             ELSE first

Key_toString(offs, inKeySet) == toStringRange(1, NumProps, "", offs, inKeySet)

(***************************************************************************)
(* fromString of each property type: the key store after the call          *)
(***************************************************************************)
Boolean_fromString(ioStr, name, off, inKeySet) ==
    Boolean_setValue(inKeySet, off, getBoolValue(ioStr, name))

\* also the fromString of QSSGShaderKeyImageMap, which declares none
Unsigned_fromString(ioStr, name, off, BitWidth, inKeySet) ==
    LET nameLen == Len(name)
        strOffset == indexOf(ioStr, name)
    IN  IF strOffset < 0 THEN inKeySet
        ELSE IF CharAt(ioStr, strOffset + nameLen) # "=" THEN inKeySet
        ELSE LET s == right(ioStr, Len(ioStr) - strOffset - nameLen - 1)
                 i == digitRun(s)
                 value == toInt(left(s, i))
             IN  Unsigned_setValue(inKeySet, off, BitWidth, BitsOf(value))

TextureChannel_fromString(ioStr, name, off, inKeySet) ==
    LET nameLen == Len(name)
        strOffset == indexOf(ioStr, name)
    IN  IF strOffset < 0 THEN inKeySet
        ELSE IF CharAt(ioStr, strOffset + nameLen) # "=" THEN inKeySet
        ELSE LET ch == CharAt(ioStr, strOffset + nameLen + 1)
                 known == {v \in 1..4 : textureChannelToChar[v] = ch}
             IN  IF known = {} THEN inKeySet
                 ELSE Unsigned_setValue(inKeySet, off, 2, BitsOf(Min(known) - 1))

\* set the flags first..last from the list items of the same positions
RECURSIVE flagsFromList(_, _, _, _, _, _, _)
flagsFromList(list, names, first, last, off, BitWidth, inKeySet) ==
    LET one == setBitValue(inKeySet, off, BitWidth, first - 1,
                           getBoolValue(list[first], names[first]))
    IN  IF first = last THEN one
        ELSE flagsFromList(list, names, first + 1, last, off, BitWidth, one)

TextureSwizzle_fromString(ioStr, name, off, inKeySet) ==
    LET nameLen == Len(name)
        strOffset == indexOf(ioStr, name)
    IN  IF strOffset < 0 THEN inKeySet
        ELSE IF CharAt(ioStr, strOffset + nameLen) # "=" THEN inKeySet
        ELSE IF CharAt(ioStr, strOffset + nameLen + 1) # "{" THEN inKeySet
        ELSE LET codeOffsetBegin == strOffset + nameLen + 2
                 codeOffset == scanTo(ioStr, codeOffsetBegin, "}")
                 list == split(mid(ioStr, codeOffsetBegin, codeOffset), ";")
             IN  IF Len(list) # 5 THEN inKeySet
                 ELSE flagsFromList(list, SwizzleFlagNames, 1, 5, off, 5, inKeySet)

VertexAttribute_fromString(ioStr, name, off, inKeySet) ==
    LET nameLen == Len(name)
        strOffset == indexOf(ioStr, name)
    IN  IF strOffset < 0 THEN inKeySet
        ELSE IF CharAt(ioStr, strOffset + nameLen) # "=" THEN inKeySet
        ELSE IF CharAt(ioStr, strOffset + nameLen + 1) # "{" THEN inKeySet
        ELSE LET codeOffsetBegin == strOffset + nameLen + 2
                 codeOffset == scanTo(ioStr, codeOffsetBegin, "}")
                 list == split(mid(ioStr, codeOffsetBegin, codeOffset), ";")
             IN  IF Len(list) # 7 THEN inKeySet
                 ELSE flagsFromList(list, VertexAttributeFlagNames, 1, 7, off, 8, inKeySet)

\* SpecularModel and AlphaMode: the text up to the next ';' names the value
enumFromString(ioStr, name, off, names, inKeySet) ==
    LET nameLen == Len(name)
        strOffset == indexOf(ioStr, name)
    IN  IF strOffset < 0 THEN inKeySet
        ELSE IF CharAt(ioStr, strOffset + nameLen) # "=" THEN inKeySet
        ELSE LET codeOffsetBegin == strOffset + nameLen + 1
                 codeOffset == scanTo(ioStr, codeOffsetBegin, ";")
                 val == mid(ioStr, codeOffsetBegin, codeOffset)
                 known == {v \in DOMAIN names : names[v] = val}
             IN  IF known = {} THEN inKeySet
                 ELSE Unsigned_setValue(inKeySet, off, 2, BitsOf(Min(known) - 1))

SpecularModel_fromString(ioStr, name, off, inKeySet) ==
    enumFromString(ioStr, name, off, SpecularModelNames, inKeySet)

AlphaMode_fromString(ioStr, name, off, inKeySet) ==
    enumFromString(ioStr, name, off, AlphaModeNames, inKeySet)

\* prop.fromString(m_str, m_keyStore), dispatched on the property's type
Prop_fromString(ioStr, prop, off, inKeySet) ==
    CASE prop.kind = "Boolean" -> Boolean_fromString(ioStr, prop.name, off, inKeySet)
      [] prop.kind \in {"Unsigned4", "Unsigned16", "ImageMap"} ->
            Unsigned_fromString(ioStr, prop.name, off, prop.BitWidth, inKeySet)
      [] prop.kind = "TextureChannel" ->
            TextureChannel_fromString(ioStr, prop.name, off, inKeySet)
      [] prop.kind = "TextureSwizzle" ->
            TextureSwizzle_fromString(ioStr, prop.name, off, inKeySet)
      [] prop.kind = "SpecularModel" ->
            SpecularModel_fromString(ioStr, prop.name, off, inKeySet)
      [] prop.kind = "AlphaMode" -> AlphaMode_fromString(ioStr, prop.name, off, inKeySet)
      [] prop.kind = "VertexAttribute" ->
            VertexAttribute_fromString(ioStr, prop.name, off, inKeySet)

(***************************************************************************)
(* QSSGShaderDefaultMaterialKey::StringInVisitor and fromString            *)
(***************************************************************************)
\* the visits of properties lo..hi, in order, applied to the key store
RECURSIVE fromStringRange(_, _, _, _, _)
fromStringRange(lo, hi, ioString, offs, inKeySet) ==
    IF lo = hi THEN Prop_fromString(ioString, visitProperties[lo], offs[lo], inKeySet)
    ELSE LET half == (lo + hi) \div 2
             first == fromStringRange(lo, half, ioString, offs, inKeySet)
         IN  \* the test makes the visits of the first half happen first
             IF DOMAIN first # {} THEN fromStringRange(half + 1, hi, ioString, offs, first)
             ELSE first

Key_fromString(ioString, offs, inKeySet) ==
    fromStringRange(1, NumProps, ioString, offs, inKeySet)

(***************************************************************************)
(* The key as it is constructed: every word zero.                          *)
(***************************************************************************)
ZeroBuffer == [idx \in 0..(DataBufferSize - 1) |-> {}]
ZeroKey == [m_dataBuffer |-> ZeroBuffer, m_featureSetHash |-> 0]
NoOp == [prop |-> 0, value |-> 0]

\* QSSGShaderCache after construction: no pipeline cached
(***************************************************************************)
(* RotationData: a rotation kept as Euler angles and as a quaternion, each *)
(* computed from the other when it is read.  Rotations are about one axis, *)
(* Euler angles in quarter turns; a quaternion is the number of quarter    *)
(* turns modulo a full turn.                                               *)
(***************************************************************************)
QuarterTurns == 4

\* QQuaternion::fromEulerAngles and QQuaternion::toEulerAngles: the angle of
\* a quaternion is in (-2, 2] quarter turns
fromEulerAngles(e) == e % QuarterTurns
toEulerAngles(q) == IF q > QuarterTurns \div 2 THEN q - QuarterTurns ELSE q

\* RotationData(), RotationData(QVector3D) and RotationData(QQuaternion)
RotationData == [m_quatRot |-> 0, m_eulerRot |-> 0, m_dirty |-> "None"]
RotationData_fromEuler(r) == [m_quatRot |-> 0, m_eulerRot |-> r, m_dirty |-> "Quaternion"]
RotationData_fromQuaternion(r) == [m_quatRot |-> r, m_eulerRot |-> 0, m_dirty |-> "Euler"]

\* operator=(QVector3D) and operator=(QQuaternion)
assignEuler(rd, r) == [rd EXCEPT !.m_eulerRot = r, !.m_dirty = "Quaternion"]

assignQuaternion_SkipsEqual(rd, r) ==
    IF rd.m_quatRot = r THEN rd
    ELSE [rd EXCEPT !.m_quatRot = r, !.m_dirty = "Euler"]

assignQuaternion(rd, r) == [rd EXCEPT !.m_quatRot = r, !.m_dirty = "Euler"]

\* operator QQuaternion() and operator QVector3D(): the RotationData after
\* the read; the value read is its m_quatRot, or its m_eulerRot
toQuaternion(rd) ==
    IF rd.m_dirty = "Quaternion"
    THEN [rd EXCEPT !.m_quatRot = fromEulerAngles(rd.m_eulerRot), !.m_dirty = "None"]
    ELSE rd

toVector3D(rd) ==
    IF rd.m_dirty = "Euler"
    THEN [rd EXCEPT !.m_eulerRot = toEulerAngles(rd.m_quatRot), !.m_dirty = "None"]
    ELSE rd

NoRotationOp == [op |-> "none", value |-> 0, before |-> RotationData, result |-> 0]

RotationConstructed ==
    /\ rotation = RotationData
    /\ rotationOp = NoRotationOp
    /\ nRotationOps = 0

\* ---------------------------------------------------------------------------
\* QPRand (quick3dparticles/qquick3dparticlerandomizer_p.h)
\* ---------------------------------------------------------------------------

\* UserType: Default, DeterministicSeparator and the first enumerator after it
Default == 0
DeterministicSeparator == 18
LifeSpanV == 19

\* QRandomGenerator is a class of Qt: one step of a full-period congruential
\* generator stands for it; generateDouble() returns the new state.
GeneratorModulus == 16
seedGenerator(seed) == seed % GeneratorModulus
generateDouble(g) == (5 * g + 3) % GeneratorModulus

\* float(double): the value loses its low bits
toFloat(d) == d \div 2

\* the loop of init(): size values drawn from the generator g
RECURSIVE drawRandomList(_, _)
drawRandomList(g, size) ==
    IF size = 0 THEN <<>>
    ELSE <<toFloat(generateDouble(g))>> \o drawRandomList(generateDouble(g), size - 1)

RECURSIVE generatorAfter(_, _)
generatorAfter(g, size) == IF size = 0 THEN g ELSE generatorAfter(generateDouble(g), size - 1)

\* the QPRand members as a record
QPRandMembers ==
    [m_size |-> m_size, m_index |-> m_index, m_deterministic |-> m_deterministic,
     m_randomList |-> m_randomList]

\* get(): the new m_index and the value returned
QPRand_getNext(q) ==
    [m_index |-> IF q.m_index < q.m_size - 1 THEN q.m_index + 1 ELSE 0,
     value |-> q.m_randomList[(IF q.m_index < q.m_size - 1 THEN q.m_index + 1 ELSE 0) + 1]]

QPRand_get_AlwaysFromList(q, particleIndex, user) ==
    IF user > DeterministicSeparator
    THEN QPRand_getNext(q)
    ELSE [m_index |-> q.m_index,
          value |-> q.m_randomList[((particleIndex + user) % q.m_size) + 1]]

\* get(particleIndex, user): the new m_index and the value returned
QPRand_get(q, particleIndex, user) ==
    IF ~q.m_deterministic /\ user > DeterministicSeparator
    THEN QPRand_getNext(q)
    ELSE [m_index |-> q.m_index,
          value |-> q.m_randomList[((particleIndex + user) % q.m_size) + 1]]

QPRandConstructed ==
    /\ m_generator = 0
    /\ m_size = 0
    /\ m_index = 0
    /\ m_deterministic = FALSE
    /\ m_randomList = <<>>
    /\ gets = <<>>
    /\ nGets = 0

\* ---------------------------------------------------------------------------
\* UniformModel (tools/materialeditor/uniformmodel.cpp)
\* ---------------------------------------------------------------------------

\* CustomMaterial::Uniform::Type, the enumerators an int converts to
UniformTypes == <<"Bool", "Int">>
toUniformType(v) == IF v + 1 \in DOMAIN UniformTypes THEN UniformTypes[v + 1] ELSE "Last"

\* QVariant conversions of the values handed to setData: an int or a string
Variant_toInt(value) ==
    IF value.kind = "int" THEN [ok |-> TRUE, v |-> value.v] ELSE [ok |-> FALSE, v |-> 0]
Variant_toString(value) ==
    IF value.kind = "int" THEN (IF value.v = 0 THEN "0" ELSE "1") ELSE value.v
Variant_toBool(value) ==
    IF value.kind = "int" THEN value.v # 0 ELSE value.v \notin {"", "0", "false"}

\* the value a new row of the type starts with
defaultValue(type) == IF type = "Bool" THEN FALSE ELSE 0

NoTable == [null |-> TRUE, rows |-> <<>>]
NoUniformOp == [op |-> "none", row |-> 0, result |-> FALSE]

InsertAt(rows, rowIndex, uniform) ==
    SubSeq(rows, 1, rowIndex) \o <<uniform>> \o SubSeq(rows, rowIndex + 1, Len(rows))
RemoveAt(rows, rowIndex, n) ==
    SubSeq(rows, 1, rowIndex) \o SubSeq(rows, rowIndex + n + 1, Len(rows))
qBound(lo, v, hi) == Max({lo, Min({hi, v})})

validateUniformName(table, uniformName) ==
    /\ ~table.null
    /\ \A i \in DOMAIN table.rows : table.rows[i].name # uniformName

\* setData(index, value, role) on a valid row: the row after the call and the result
UniformModel_setData(uniform, value, role) ==
    IF role = "Type"
        THEN [ok |-> Variant_toInt(value).ok,
              uniform |-> IF Variant_toInt(value).ok
                          THEN [uniform EXCEPT !.type = toUniformType(Variant_toInt(value).v)]
                          ELSE uniform]
    ELSE IF role = "Name"
        THEN [ok |-> TRUE, uniform |-> [uniform EXCEPT !.name = Variant_toString(value)]]
    ELSE [ok |-> TRUE,
          uniform |-> IF uniform.type = "Bool" THEN [uniform EXCEPT !.value = Variant_toBool(value)]
                      ELSE IF uniform.type = "Int"
                          THEN [uniform EXCEPT !.value = Variant_toInt(value).v]
                      ELSE uniform]

UniformModelConstructed ==
    /\ m_uniformTable = NoTable
    /\ uniformOp = NoUniformOp
    /\ nUniformOps = 0

ToolsConstructed == QPRandConstructed /\ UniformModelConstructed

CacheConstructed ==
    /\ m_rhiShaders = {}
    /\ nextPipeline = 1
    /\ compiles = <<>>
    /\ returned = <<>>
    /\ nRequests = 0

\* what no initialize() call leaves behind
NoInitialize == [called |-> FALSE, failAt |-> "none", swapFail |-> 0, returned |-> FALSE]

\* QOpenXRManager after construction: every handle null
XrHandlesNull ==
    /\ xrPhase = "constructed"
    /\ m_graphics = FALSE
    /\ m_instance = 0 /\ m_debugMessenger = 0 /\ m_session = 0
    /\ m_appSpace = 0 /\ m_viewSpace = 0
    /\ m_passthroughFeature = 0 /\ m_passthroughLayer = 0
    /\ m_swapchains = <<>>
    /\ m_spaceExtension = FALSE /\ m_inputManager = FALSE
    /\ m_enablePassthrough = FALSE
    /\ m_passthroughSupported = FALSE
    /\ m_spaceExtensionSupported = FALSE
    /\ m_multiviewRendering = FALSE
    /\ nextHandle = 1
    /\ liveHandles = {}
    /\ xrCreated = <<>>
    /\ xrReleased = <<>>
    /\ nTeardowns = 0
    /\ nXrCalls = 0
    /\ m_errorString = ""
    /\ m_swapchainArraySize = <<>>
    /\ lastInitialize = NoInitialize

\* what no setupAppSpace() call and no processXrEvents() call leave behind
NoSetup == [requested |-> "none", advertised |-> {}, type |-> "none", created |-> FALSE,
            emulating |-> FALSE, pending |-> FALSE]
NoTick == [polled |-> <<>>, pending |-> 0, exitRenderLoop |-> FALSE,
           requestRestart |-> FALSE, calls |-> <<>>, signals |-> <<>>, frames |-> <<>>,
           updates |-> 0]

\* a pose at the origin: position and rotation are the identity
NoPose == [position |-> 0, rotation |-> 0]

\* a reference space create info: the type and the height of the origin pose
CreateInfo(type, y) == [referenceSpaceType |-> type, y |-> y]
NoCreateInfo == CreateInfo("none", 0)

\* the session has not started, no reference space is chosen, nothing is queued
TickConstructed ==
    /\ m_sessionState = "Unknown"
    /\ m_sessionRunning = FALSE
    /\ m_referenceSpace = "Local"
    /\ m_availableReferenceSpace = {}
    /\ m_isEmulatingLocalFloor = FALSE
    /\ m_isFloorResetPending = FALSE
    /\ m_views = 0
    /\ eventQueue = <<>>
    /\ sessionBegun = FALSE
    /\ sessionLog = <<>>
    /\ lastSetup = NoSetup
    /\ nStageLocates = 0
    /\ floorResets = <<>>
    /\ tick = NoTick
    /\ nTicks = 0
    /\ nEvents = 0
    /\ m_previousTime = 0
    /\ m_xrOrigin = FALSE
    /\ crashed = FALSE
    /\ camera = NoPose
    /\ appSpaceCreateInfo = NoCreateInfo

\* the view's properties: the requested reference space and the blend mode
XrConstructed ==
    /\ XrHandlesNull
    /\ TickConstructed
    /\ m_requestedReferenceSpace = "Local"
    /\ m_environmentBlendMode = "Opaque"

KeyConstructed ==
    /\ m_dataBuffer = ZeroBuffer
    /\ m_featureSetHash = 0
    /\ otherKey = ZeroKey
    /\ lastValue = [p \in PropIds |-> 0]
    /\ lastOp = NoOp
    /\ nSets = 0
    /\ nFlips = 0

(***************************************************************************)
(* SpecInit: QSSGShaderDefaultMaterialKeyProperties::init(), one           *)
(* InitVisitor::visit per step.                                            *)
(***************************************************************************)
InitInit ==
    /\ visitIdx = 0
    /\ m_offset = 0
    /\ offset = [p \in PropIds |-> 0]
    /\ stringSize = 0
    /\ initDone = FALSE
    /\ KeyConstructed
    /\ CacheConstructed /\ RotationConstructed /\ ToolsConstructed
    /\ XrConstructed

InitVisitor_visit ==
    /\ ~initDone
    /\ visitIdx < NumProps
    /\ LET p == visitIdx + 1
           r == OffsetVisitor_visit(m_offset, visitProperties[p].BitWidth)
       IN  /\ offset' = [offset EXCEPT ![p] = r.offset]
           /\ m_offset' = r.m_offset
           /\ stringSize' = stringSize + Len(visitProperties[p].name)
           /\ visitIdx' = p
    /\ UNCHANGED <<initDone, keyVars, cacheVars, xrVars, rotVars, toolVars>>

init_return ==
    /\ ~initDone
    /\ visitIdx = NumProps
    /\ initDone' = TRUE
    /\ UNCHANGED <<visitIdx, m_offset, offset, stringSize, keyVars, cacheVars, xrVars, rotVars, toolVars>>

NextInit == InitVisitor_visit \/ init_return

SpecInit == InitInit /\ [][NextInit]_vars

\* The bit range [offset, offset + BitWidth) of a visited property.
BitRange(p) == offset[p] .. (offset[p] + visitProperties[p].BitWidth - 1)

\* C3: while and after init() runs, the bit ranges of the properties visited
\* so far are pairwise disjoint, increase with the visit order, and none
\* crosses a 32-bit word boundary.
C3_OffsetsDisjointOrdered ==
    \A p \in 1..visitIdx :
        /\ offset[p] \div WordBits
             = (offset[p] + visitProperties[p].BitWidth - 1) \div WordBits
        /\ \A q \in 1..visitIdx :
              p < q => /\ offset[p] + visitProperties[p].BitWidth <= offset[q]
                       /\ BitRange(p) \cap BitRange(q) = {}

\* Witness of C3: init() has returned and a property was bumped to the
\* start of the next word.
C3_Witness ==
    /\ initDone
    /\ \E p \in 2..NumProps :
          /\ offset[p] % WordBits = 0
          /\ offset[p] > offset[p - 1] + visitProperties[p - 1].BitWidth

\* C4: once init() has returned, the final offset is below the capacity of
\* 320 bits (the Q_ASSERT of init()), and every property's word index is
\* inside the data buffer.
C4_WithinCapacity ==
    initDone =>
        /\ m_offset < KeyCapacityBits
        /\ KeyCapacityBits = DataBufferSize * WordBits
        /\ \A p \in PropIds : getIdx(offset[p]) < DataBufferSize

\* Witness of C4: init() has returned, and the bumps have wasted bits: the
\* final offset exceeds the sum of the declared widths.
C4_Witness ==
    /\ initDone
    /\ m_offset > SumBitWidths(1, NumProps)

\* where the visitor stood when it visited property p
OffsetBefore(p) ==
    IF p = 1 THEN 0 ELSE offset[p - 1] + visitProperties[p - 1].BitWidth

\* C40: the offset assignment never uses bit 31 of a key word: a property is
\* moved to the start of the next word exactly when bit + BitWidth > 31, a
\* property that would end at the word's last bit included, and every
\* assigned property has (offset mod 32) + BitWidth <= 31.
C40_LastBitUnused ==
    \A p \in 1..visitIdx :
        /\ (offset[p] % WordBits) + visitProperties[p].BitWidth <= 31
        /\ (WordBits - 1) \notin { b % WordBits : b \in BitRange(p) }
        /\ IF (OffsetBefore(p) % WordBits) + visitProperties[p].BitWidth > 31
           THEN offset[p] = OffsetBefore(p) + (WordBits - (OffsetBefore(p) % WordBits))
           ELSE offset[p] = OffsetBefore(p)

\* Witness of C40: init() has returned and a property that would have ended
\* exactly at the last bit of its word was moved to the next word.
C40_Witness ==
    /\ initDone
    /\ \E p \in 2..NumProps :
          /\ (OffsetBefore(p) % WordBits) + visitProperties[p].BitWidth = WordBits
          /\ offset[p] % WordBits = 0
          /\ offset[p] > OffsetBefore(p)


(***************************************************************************)
(* SpecKey: setter calls on one key, the properties being initialised.     *)
(***************************************************************************)
PropertiesConstructed ==
    /\ visitIdx = NumProps
    /\ m_offset = ConstructedOffsets.m_offset
    /\ offset = [p \in PropIds |-> ConstructedOffsets.offs[p]]
    /\ stringSize = 0
    /\ initDone = TRUE

InitKey == PropertiesConstructed /\ KeyConstructed /\ CacheConstructed /\ RotationConstructed /\ ToolsConstructed /\ XrConstructed

BooleanProps == {p \in PropIds : visitProperties[p].kind = "Boolean"}
UnsignedProps == PropIds \ BooleanProps
FlagProps == {p \in PropIds :
                 visitProperties[p].kind \in {"ImageMap", "TextureSwizzle", "VertexAttribute"}}

\* the property with a given name
PropId(name) == CHOOSE p \in PropIds : visitProperties[p].name = name

\* the properties whose setters the model calls: every property type and
\* width, properties sharing the first and the last used key word
SetProps ==
    { PropId(n) : n \in { "hasLighting", "hasIbl", "lightCount", "specularModel",
                          "diffuseMap", "diffuseMap_swizzle", "translucencyMap_channel",
                          "boneCount", "alphaMode", "vertexAttributes",
                          "usesFloatJointIndices" } }

\* the values the model passes to QSSGShaderKeyUnsigned::setValue
InputValues(BitWidth) == {5, (2 ^ BitWidth) - 1, 2 ^ BitWidth}

\* m_prop.setValue(key, v) on a QSSGShaderKeyBoolean
SetBoolean(p, v) ==
    /\ nSets < MaxSets
    /\ m_dataBuffer' = Boolean_setValue(m_dataBuffer, offset[p], v)
    /\ lastValue' = [lastValue EXCEPT ![p] = IF v THEN 1 ELSE 0]
    /\ lastOp' = [prop |-> p, value |-> IF v THEN 1 ELSE 0]
    /\ nSets' = nSets + 1
    /\ UNCHANGED <<initVars, m_featureSetHash, otherKey, nFlips, cacheVars, xrVars, rotVars, toolVars>>

\* m_prop.setValue(key, v) on a QSSGShaderKeyUnsigned or a type derived from it
SetUnsigned(p, v) ==
    /\ nSets < MaxSets
    /\ m_dataBuffer' = Unsigned_setValue(m_dataBuffer, offset[p],
                                         visitProperties[p].BitWidth, BitsOf(v))
    /\ lastValue' = [lastValue EXCEPT ![p] = v]
    /\ lastOp' = [prop |-> p, value |-> v]
    /\ nSets' = nSets + 1
    /\ UNCHANGED <<initVars, m_featureSetHash, otherKey, nFlips, cacheVars, xrVars, rotVars, toolVars>>

\* setEnabled, setNoSwizzled, setBitValue(Position, ...) and the like
SetBit(p, bitNo, v) ==
    /\ nSets < MaxSets
    /\ LET W == visitProperties[p].BitWidth
           old == Unsigned_getValue(m_dataBuffer, offset[p], W)
           written == ValueOf(IF v THEN old \cup {bitNo} ELSE old \ {bitNo})
       IN  /\ m_dataBuffer' = setBitValue(m_dataBuffer, offset[p], W, bitNo, v)
           /\ lastValue' = [lastValue EXCEPT ![p] = written]
           /\ lastOp' = [prop |-> p, value |-> written]
    /\ nSets' = nSets + 1
    /\ UNCHANGED <<initVars, m_featureSetHash, otherKey, nFlips, cacheVars, xrVars, rotVars, toolVars>>

NextKey ==
    \/ \E p \in BooleanProps \cap SetProps, v \in BOOLEAN : SetBoolean(p, v)
    \/ \E p \in UnsignedProps \cap SetProps :
          \E v \in InputValues(visitProperties[p].BitWidth) : SetUnsigned(p, v)
    \/ \E p \in FlagProps \cap SetProps :
          \E bitNo \in 0..(visitProperties[p].BitWidth - 1), v \in BOOLEAN :
              SetBit(p, bitNo, v)

SpecKey == InitKey /\ [][NextKey]_vars

\* the value a property holds in a key store, as a number (a boolean as 0 or 1)
PropValue(inKeySet, p) ==
    IF visitProperties[p].kind = "Boolean"
    THEN (IF Boolean_getValue(inKeySet, offset[p]) THEN 1 ELSE 0)
    ELSE ValueOf(Unsigned_getValue(inKeySet, offset[p], visitProperties[p].BitWidth))

\* C2: after setValue(v) on an unsigned property of width W, getValue returns
\* v mod 2^W, whatever v was.
C2_SetValueTruncates ==
    (lastOp.prop \in UnsignedProps) =>
        PropValue(m_dataBuffer, lastOp.prop)
            = lastOp.value % (2 ^ visitProperties[lastOp.prop].BitWidth)

\* Witness of C2: a 2-bit property was set to 5 and holds 1.
C2_Witness ==
    /\ lastOp.prop \in UnsignedProps
    /\ visitProperties[lastOp.prop].BitWidth = 2
    /\ lastOp.value = 5
    /\ PropValue(m_dataBuffer, lastOp.prop) = 1

\* C5: every property holds the last value set for it, masked to its width,
\* or 0 if it was never set: a setter changes no other property.
C5_SetValueFrame ==
    \A p \in PropIds :
        PropValue(m_dataBuffer, p) = lastValue[p] % (2 ^ visitProperties[p].BitWidth)

\* Witness of C5: two different properties that share a key word were set,
\* and both hold a non-zero value.
C5_Witness ==
    /\ nSets = 2
    /\ \E p, q \in PropIds :
          /\ p # q
          /\ q = lastOp.prop
          /\ getIdx(offset[p]) = getIdx(offset[q])
          /\ PropValue(m_dataBuffer, p) # 0
          /\ PropValue(m_dataBuffer, q) # 0
          /\ lastValue[p] # 0


(***************************************************************************)
(* The text of a key and the key read back from it.                        *)
(***************************************************************************)
KeyString == Key_toString(offset, m_dataBuffer)

\* the text a property contributes on its own
ItemText(p) == Prop_toString("", visitProperties[p], offset[p], m_dataBuffer)

\* the non-empty texts of properties lo..hi joined by ';'
RECURSIVE JoinItems(_, _)
JoinItems(lo, hi) ==
    IF lo = hi THEN ItemText(lo)
    ELSE LET half == (lo + hi) \div 2
             a == JoinItems(lo, half)
             b == JoinItems(half + 1, hi)
         IN  IF a = "" THEN b ELSE IF b = "" THEN a ELSE a \o ";" \o b

\* the enum-typed properties hold a value their enum declares
EnumsValid ==
    \A p \in PropIds :
        /\ visitProperties[p].kind = "SpecularModel" =>
              PropValue(m_dataBuffer, p) + 1 \in DOMAIN SpecularModelNames
        /\ visitProperties[p].kind = "AlphaMode" =>
              PropValue(m_dataBuffer, p) + 1 \in DOMAIN AlphaModeNames

\* C1: fromString(toString(k)) on a zero key reproduces the value of every
\* property of k (an unset property and a false boolean both read back as 0).
C1_RoundTrip ==
    EnumsValid =>
        \A str \in {KeyString} :
            \A k \in {Key_fromString(str, offset, ZeroBuffer)} :
                \A p \in PropIds : PropValue(k, p) = PropValue(m_dataBuffer, p)

\* C7 as amended: the key's text is the texts of the emitted properties in
\* declaration order joined by one ';'; a false top-level boolean emits
\* nothing; every other property emits name=value; the specularModel and
\* alphaMode texts end with a ';' of their own, no other text does.
C7_FormatAmended ==
    /\ KeyString = JoinItems(1, NumProps)
    /\ \A p \in PropIds :
          LET item == ItemText(p)
              name == visitProperties[p].name
          IN  /\ (item = "") <=> (p \in BooleanProps /\ PropValue(m_dataBuffer, p) = 0)
              /\ item # "" => left(item, Len(name) + 1) = name \o "="
              /\ item # "" =>
                    ((right(item, 1) = ";")
                        <=> visitProperties[p].kind \in {"SpecularModel", "AlphaMode"})

\* Witness of C7: a top-level boolean was set to true and is emitted, while
\* another one is false and is left out.
C7_Witness ==
    /\ lastOp.prop \in BooleanProps
    /\ lastOp.value = 1
    /\ ItemText(lastOp.prop) = visitProperties[lastOp.prop].name \o "=true"
    /\ \E q \in BooleanProps : ItemText(q) = ""

\* C7 as stated: as above, but no property's text ends with a ';', so that
\* no empty item stands between two separators.
C7_FormatOriginal ==
    /\ KeyString = JoinItems(1, NumProps)
    /\ \A p \in PropIds :
          LET item == ItemText(p)
              name == visitProperties[p].name
          IN  /\ (item = "") <=> (p \in BooleanProps /\ PropValue(m_dataBuffer, p) = 0)
              /\ item # "" => left(item, Len(name) + 1) = name \o "="
              /\ item # "" => right(item, 1) # ";"


(***************************************************************************)
(* QSSGShaderDefaultMaterialKey::hash and operator==.                      *)
(***************************************************************************)
BitXor(a, b) == (a \ b) \cup (b \ a)

\* Qt's qHash(quint32), a function of the word alone; of its mixing steps
\* the model keeps key ^ (key >> 16)
qHash(key) == BitXor(key, Shr(key, 16))

\* the loop of hash(): retval = retval ^ qHash(m_dataBuffer[idx])
RECURSIVE hashLoop(_, _, _)
hashLoop(inBuffer, idx, retval) ==
    IF idx < DataBufferSize
    THEN hashLoop(inBuffer, idx + 1, BitXor(retval, qHash(inBuffer[idx])))
    ELSE retval

Key_hash(key) ==
    BitXor(hashLoop(key.m_dataBuffer, 0, {}), BitsOf(key.m_featureSetHash))

\* the loop of operator==: it stops at the first differing word
RECURSIVE equalsLoop(_, _, _, _, _)
equalsLoop(a, b, idx, end, retval) ==
    IF idx < end /\ retval
    THEN equalsLoop(a, b, idx + 1, end, a[idx] = b[idx])
    ELSE retval

Key_equals_SkipLastWord(key, other) ==
    /\ equalsLoop(key.m_dataBuffer, other.m_dataBuffer, 0, DataBufferSize - 1, TRUE)
    /\ key.m_featureSetHash = other.m_featureSetHash

Key_equals(key, other) ==
    /\ equalsLoop(key.m_dataBuffer, other.m_dataBuffer, 0, DataBufferSize, TRUE)
    /\ key.m_featureSetHash = other.m_featureSetHash

(***************************************************************************)
(* SpecEq: two keys, each built by its own setter calls.                   *)
(***************************************************************************)
ThisKey == [m_dataBuffer |-> m_dataBuffer, m_featureSetHash |-> m_featureSetHash]

\* the feature-set hashes the model constructs keys with
FeatureSetHashes == {0, 5}

\* one property in each of the ten key words
EqProps ==
    { PropId(n) : n \in { "hasLighting", "light14HasArea", "specularEnabled",
                          "specularMap", "normalMap", "lightmapShadow",
                          "roughnessMap", "translucencyMap", "boneCount",
                          "usesFloatJointIndices" } }

\* QSSGShaderDefaultMaterialKey(inFeatureSetHash), twice
InitEq ==
    /\ PropertiesConstructed
    /\ m_dataBuffer = ZeroBuffer
    /\ m_featureSetHash \in FeatureSetHashes
    /\ \E h \in FeatureSetHashes :
          otherKey = [m_dataBuffer |-> ZeroBuffer, m_featureSetHash |-> h]
    /\ lastValue = [p \in PropIds |-> 0]
    /\ lastOp = NoOp
    /\ nSets = 0
    /\ nFlips = 0
    /\ CacheConstructed /\ RotationConstructed /\ ToolsConstructed
    /\ XrConstructed

\* m_prop.setValue(otherKey, v) on a QSSGShaderKeyBoolean
OtherSetBoolean(p, v) ==
    /\ nFlips < MaxFlips
    /\ otherKey' = [otherKey EXCEPT
                       !.m_dataBuffer = Boolean_setValue(@, offset[p], v)]
    /\ nFlips' = nFlips + 1
    /\ UNCHANGED <<initVars, m_dataBuffer, m_featureSetHash, lastValue, lastOp, nSets,
                   cacheVars, xrVars, rotVars, toolVars>>

\* m_prop.setValue(otherKey, v) on a QSSGShaderKeyUnsigned
OtherSetUnsigned(p, v) ==
    /\ nFlips < MaxFlips
    /\ otherKey' = [otherKey EXCEPT
                       !.m_dataBuffer = Unsigned_setValue(@, offset[p],
                                            visitProperties[p].BitWidth, BitsOf(v))]
    /\ nFlips' = nFlips + 1
    /\ UNCHANGED <<initVars, m_dataBuffer, m_featureSetHash, lastValue, lastOp, nSets,
                   cacheVars, xrVars, rotVars, toolVars>>

NextEq ==
    \/ \E p \in BooleanProps \cap EqProps : SetBoolean(p, TRUE)
    \/ \E p \in UnsignedProps \cap EqProps : SetUnsigned(p, 1)
    \/ \E p \in BooleanProps \cap EqProps : OtherSetBoolean(p, TRUE)
    \/ \E p \in UnsignedProps \cap EqProps : OtherSetUnsigned(p, 1)

SpecEq == InitEq /\ [][NextEq]_vars

\* the bits in which two data buffers differ
DifferingBits(a, b) ==
    {<<idx, bit>> \in (0..(DataBufferSize - 1)) \X AllBits : (bit \in a[idx]) # (bit \in b[idx])}

\* C6: keys with identical data buffers and identical feature-set hash
\* compare equal (either way round) and have equal hash(); keys whose data
\* buffers differ in exactly one bit never compare equal.
C6_EqualsAndHash ==
    /\ (m_dataBuffer = otherKey.m_dataBuffer
            /\ m_featureSetHash = otherKey.m_featureSetHash)
          => /\ Key_equals(ThisKey, otherKey)
             /\ Key_equals(otherKey, ThisKey)
             /\ Key_hash(ThisKey) = Key_hash(otherKey)
    /\ Cardinality(DifferingBits(m_dataBuffer, otherKey.m_dataBuffer)) = 1
          => /\ ~Key_equals(ThisKey, otherKey)
             /\ ~Key_equals(otherKey, ThisKey)

\* Witness of C6: both keys were built by two setter calls each and are
\* identical, with bits set in the last key word.
C6_Witness ==
    /\ nSets = 2 /\ nFlips = 2
    /\ m_dataBuffer = otherKey.m_dataBuffer
    /\ m_featureSetHash = otherKey.m_featureSetHash
    /\ m_dataBuffer[DataBufferSize - 1] # {}
    /\ Key_equals(ThisKey, otherKey)


(***************************************************************************)
(* QSSGShaderCacheKey and QSSGShaderCache.                                 *)
(***************************************************************************)
\* QSSGShaderFeatures: operator== compares the flags
Features_equals(a, b) == a = b

QSSGShaderCacheKey(key, features) == [m_key |-> key, m_features |-> features]

CacheKey_equals_IgnoreFeatures(a, inOther) == a.m_key = inOther.m_key

\* QSSGShaderCacheKey::operator==
CacheKey_equals(a, inOther) ==
    a.m_key = inOther.m_key /\ Features_equals(a.m_features, inOther.m_features)

\* QHash::constFind: the entries stored under a key equal to theKey
Cache_find(theKey) == {e \in m_rhiShaders : CacheKey_equals(e.key, theKey)}

\* QHash::insert: the value stored under an equal key is replaced
Cache_insert(theKey, pipeline) ==
    (m_rhiShaders \ Cache_find(theKey)) \cup {[key |-> theKey, pipeline |-> pipeline]}

\* the count and the set recorded for a request, 0 and {} before the first
CompilesOf(r) == IF r \in DOMAIN compiles THEN compiles[r] ELSE 0
ReturnedOf(r) == IF r \in DOMAIN returned THEN returned[r] ELSE {}

\* the keys and feature flags the model requests; the flag sets {} and {8},
\* and {8} and {8, 9}, differ in one feature bit
CacheKeys == {"default", "custom"}
FeatureFlags == {{}, {8}, {8, 9}}

\* getRhiShaderPipeline(inKey, inFeatures): the cached pipeline on a hit; on
\* a miss one compilation, whose result (the null pipeline 0 when it fails)
\* is cached and returned
getRhiShaderPipeline(inKey, inFeatures, compileOk) ==
    /\ nRequests < MaxRequests
    /\ LET theKey == QSSGShaderCacheKey(inKey, inFeatures)
           r == <<inKey, inFeatures>>
           found == Cache_find(theKey)
           hit == found # {}
           result == IF hit THEN (CHOOSE e \in found : TRUE).pipeline
                     ELSE IF compileOk THEN nextPipeline ELSE 0
       IN  /\ hit => compileOk
           /\ m_rhiShaders' = IF hit THEN m_rhiShaders ELSE Cache_insert(theKey, result)
           /\ nextPipeline' = IF ~hit /\ compileOk THEN nextPipeline + 1 ELSE nextPipeline
           /\ compiles' = (r :> (CompilesOf(r) + (IF hit THEN 0 ELSE 1))) @@ compiles
           /\ returned' = (r :> (ReturnedOf(r) \cup {result})) @@ returned
    /\ nRequests' = nRequests + 1
    /\ UNCHANGED <<initVars, keyVars, xrVars, rotVars, toolVars>>

InitCache == PropertiesConstructed /\ KeyConstructed /\ CacheConstructed /\ RotationConstructed /\ ToolsConstructed /\ XrConstructed

NextCache ==
    \E inKey \in CacheKeys, inFeatures \in FeatureFlags, compileOk \in BOOLEAN :
        getRhiShaderPipeline(inKey, inFeatures, compileOk)

SpecCache == InitCache /\ [][NextCache]_vars

\* same request, same pipeline; at most one compilation per request; at
\* most one cache entry per key
CacheDeduplicates ==
    /\ \A r \in DOMAIN returned : Cardinality(returned[r]) = 1
    /\ \A r \in DOMAIN compiles : compiles[r] <= 1
    /\ \A e1, e2 \in m_rhiShaders : CacheKey_equals(e1.key, e2.key) => e1 = e2

\* two requests made so far with the same key and feature flags one bit apart
OneFeatureBitApart(r1, r2) ==
    /\ r1 \in DOMAIN returned /\ r2 \in DOMAIN returned
    /\ r1[1] = r2[1]
    /\ Cardinality(BitXor(r1[2], r2[2])) = 1

InitSteps == << "graphics", "instance", "system", "setupGraphics", "session",
                "appSpace", "viewSpace", "none" >>
StepNo(step) == CHOOSE i \in DOMAIN InitSteps : InitSteps[i] = step

\* the handles a creation call is given
CreatedFrom(res) ==
    CASE res = "instance" -> {}
      [] res \in {"debugMessenger", "session"} -> {"instance"}
      [] res \in {"spaceExtension", "inputManager"} -> {"instance", "session"}
      [] res \in {"appSpace", "viewSpace", "swapchain", "passthroughFeature"} -> {"session"}
      [] res = "passthroughLayer" -> {"session", "passthroughFeature"}

\* the runtime hands out consecutive handles for the resources in kinds
NewEntries(kinds) ==
    [i \in 1..Len(kinds) |-> [res |-> kinds[i], handle |-> nextHandle + i - 1]]
HandlesOf(entries, res) == {entries[i].handle : i \in {j \in DOMAIN entries : entries[j].res = res}}
HandleOr(entries, res, old) ==
    IF HandlesOf(entries, res) = {} THEN old ELSE Max(HandlesOf(entries, res))
When(cond, seq) == IF cond THEN seq ELSE <<>>

\* setupAppSpace(): the reference space type it asks the runtime for and the
\* flags it leaves, given the requested type, the advertised set, the
\* pending flag before the call and whether xrCreateReferenceSpace succeeds
setupAppSpace_KeepsRequested(requested, available, pendingBefore, createOk) ==
    LET emulate == /\ requested \notin available
                   /\ requested = "LocalFloor"
                   /\ "Stage" \in available
        pending == emulate \/ pendingBefore
    IN  [ type |-> IF requested \in available \/ emulate THEN requested ELSE "Local",
          m_isEmulatingLocalFloor |-> emulate,
          m_isFloorResetPending |-> pending,
          created |-> createOk,
          signals |-> IF createOk /\ ~pending THEN <<"referenceSpaceChanged">> ELSE <<>> ]

setupAppSpace_ForgetsEmulating(requested, available, pendingBefore, createOk) ==
    LET emulate == /\ requested \notin available
                   /\ requested = "LocalFloor"
                   /\ "Stage" \in available
        pending == emulate \/ pendingBefore
    IN  [ type |-> IF requested \in available THEN requested ELSE "Local",
          m_isEmulatingLocalFloor |-> FALSE,
          m_isFloorResetPending |-> pending,
          created |-> createOk,
          signals |-> IF createOk /\ ~pending THEN <<"referenceSpaceChanged">> ELSE <<>> ]

setupAppSpace(requested, available, pendingBefore, createOk) ==
    LET emulate == /\ requested \notin available
                   /\ requested = "LocalFloor"
                   /\ "Stage" \in available
        pending == emulate \/ pendingBefore
    IN  [ type |-> IF requested \in available THEN requested ELSE "Local",
          m_isEmulatingLocalFloor |-> emulate,
          m_isFloorResetPending |-> pending,
          created |-> createOk,
          signals |-> IF createOk /\ ~pending THEN <<"referenceSpaceChanged">> ELSE <<>> ]

\* the record of a setupAppSpace() call
SetupRecord(requested, available, r) ==
    [ requested |-> requested, advertised |-> available, type |-> r.type,
      created |-> r.created, emulating |-> r.m_isEmulatingLocalFloor,
      pending |-> r.m_isFloorResetPending ]

\* the value an uninitialised Swapchain::handle may hold besides null
StaleHandle == 77

\* m_errorString as initialize() leaves it when the step failAt fails
ErrorStringAt(failAt) ==
    CASE failAt = "instance" -> "xrCreateInstance failed"
      [] failAt = "system" -> "xrGetSystem failed"
      [] failAt = "setupGraphics" -> "Failed to set up 3D API integration"
      [] failAt = "session" -> "xrCreateSession failed"
      [] OTHER -> ""

\* createSwapchains(): the number of swapchains it creates
swapchainCount_AlwaysPerView(multiviewRendering, viewCount) == viewCount

swapchainCount(multiviewRendering, viewCount) ==
    IF multiviewRendering THEN 1 ELSE viewCount

\* createSwapchains(): m_swapchains, given the handles of the swapchains the
\* runtime created, in order; the entry whose xrCreateSwapchain failed
\* (swapFail, 0: none) keeps the handle it was declared with
createSwapchains(created, count, swapFail, stale) ==
    [i \in 1..count |->
        IF i = swapFail THEN stale
        ELSE created[IF swapFail # 0 /\ i > swapFail THEN i - 1 ELSE i]]

\* initialize(): failAt names the first step that fails ("none": it returns
\* true); the other parameters are what the environment asks for and what
\* the runtime supports and reports: multiview is QT_QUICK3D_XR_MULTIVIEW,
\* rhiMultiView whether the QRhi supports multiview
initialize(failAt, debugUtils, spaceExt, passthrough, multiview, viewCount, advertised, rhiMultiView, swapFail, stale) ==
    /\ xrPhase = "constructed"
    /\ LET n == StepNo(failAt)
           mv == multiview /\ rhiMultiView
           count == IF n > 7 THEN swapchainCount(mv, viewCount) ELSE 0
           kinds == When(n > 2, <<"instance">>)
                    \o When(n > 2 /\ debugUtils, <<"debugMessenger">>)
                    \o When(n > 5, <<"session">>)
                    \o When(n > 5 /\ spaceExt, <<"spaceExtension">>)
                    \o When(n > 5, <<"inputManager">>)
                    \o When(n > 6, <<"appSpace">>)
                    \o When(n > 7, <<"viewSpace">>)
                    \o [i \in 1..(IF swapFail = 0 THEN count ELSE count - 1) |-> "swapchain"]
           entries == NewEntries(kinds)
           isHandle(i) == entries[i].res \notin {"spaceExtension", "inputManager"}
           created == SelectSeq([i \in DOMAIN entries |->
                                    IF entries[i].res = "swapchain" THEN entries[i].handle
                                    ELSE 0],
                                LAMBDA h : h # 0)
       IN  /\ swapFail <= count
           /\ swapFail = 0 => stale = 0
           /\ m_multiviewRendering' \in (IF n > 4 THEN {mv}
                                         ELSE IF n = 4 THEN {multiview, mv}
                                         ELSE {multiview})
           /\ m_graphics' = (n > 5)
           /\ m_spaceExtension' = (n > 1)
           /\ m_passthroughSupported' = (n > 1 /\ passthrough)
           /\ m_spaceExtensionSupported' = (n > 1 /\ spaceExt)
           /\ m_instance' = HandleOr(entries, "instance", m_instance)
           /\ m_debugMessenger' = HandleOr(entries, "debugMessenger", m_debugMessenger)
           /\ m_session' = HandleOr(entries, "session", m_session)
           /\ m_inputManager' = (n > 5)
           /\ m_appSpace' = HandleOr(entries, "appSpace", m_appSpace)
           /\ m_viewSpace' = HandleOr(entries, "viewSpace", m_viewSpace)
           /\ m_swapchains' = createSwapchains(created, count, swapFail, stale)
           /\ m_swapchainArraySize' = [i \in 1..count |-> IF mv THEN viewCount ELSE 0]
           /\ m_errorString' = ErrorStringAt(failAt)
           /\ lastInitialize' = [called |-> TRUE, failAt |-> failAt, swapFail |-> swapFail,
                                 returned |-> (failAt = "none")]
           /\ nextHandle' = nextHandle + Len(entries)
           /\ liveHandles' = liveHandles
                                \cup {entries[i].handle : i \in {j \in DOMAIN entries : isHandle(j)}}
           /\ xrCreated' = xrCreated \o entries
           /\ xrPhase' = IF failAt = "none" THEN "initialized" ELSE "initFailed"
           /\ m_views' = IF n > 7 THEN viewCount ELSE m_views
           /\ IF n > 5
              THEN LET r == setupAppSpace(m_requestedReferenceSpace, advertised,
                                          m_isFloorResetPending, n > 6)
                   IN  /\ m_availableReferenceSpace' = advertised
                       /\ m_isEmulatingLocalFloor' = r.m_isEmulatingLocalFloor
                       /\ m_isFloorResetPending' = r.m_isFloorResetPending
                       /\ m_referenceSpace' = IF r.created THEN r.type ELSE m_referenceSpace
                       /\ appSpaceCreateInfo' = IF r.created THEN CreateInfo(r.type, 0)
                                                 ELSE appSpaceCreateInfo
                       /\ lastSetup' = SetupRecord(m_requestedReferenceSpace, advertised, r)
              ELSE UNCHANGED <<m_availableReferenceSpace, m_isEmulatingLocalFloor,
                               m_isFloorResetPending, m_referenceSpace, lastSetup,
                               appSpaceCreateInfo>>
    /\ UNCHANGED <<initVars, keyVars, cacheVars, rotVars, toolVars, m_passthroughFeature, m_passthroughLayer,
                   m_enablePassthrough, xrReleased, nTeardowns, nXrCalls,
                   m_sessionState, m_sessionRunning, m_requestedReferenceSpace,
                   m_environmentBlendMode, eventQueue, sessionBegun, sessionLog, tick,
                   nTicks, nEvents, nStageLocates, floorResets, m_previousTime, camera,
                   m_xrOrigin, crashed>>

\* setPassthroughEnabled(enabled); featureOk and layerOk: the runtime
\* creates the passthrough feature and layer when asked to
setPassthroughEnabled(enabled, featureOk, layerOk) ==
    /\ xrPhase # "tornDown"
    /\ ~crashed
    /\ nXrCalls < MaxXrCalls
    /\ nXrCalls' = nXrCalls + 1
    /\ IF m_enablePassthrough = enabled
       THEN /\ featureOk /\ layerOk
            /\ UNCHANGED <<m_enablePassthrough, m_passthroughFeature, m_passthroughLayer,
                           nextHandle, liveHandles, xrCreated>>
       ELSE /\ m_enablePassthrough' = enabled
            /\ IF m_passthroughSupported /\ enabled
               THEN LET createFeature == m_passthroughFeature = 0
                        createLayer == m_passthroughLayer = 0
                        gotFeature == createFeature /\ featureOk /\ m_session \in liveHandles
                        feature == IF gotFeature THEN nextHandle ELSE m_passthroughFeature
                        next == IF gotFeature THEN nextHandle + 1 ELSE nextHandle
                        gotLayer == /\ createLayer /\ layerOk
                                    /\ m_session \in liveHandles /\ feature # 0
                        layer == IF gotLayer THEN next ELSE m_passthroughLayer
                        entries ==
                            When(gotFeature, <<[res |-> "passthroughFeature", handle |-> feature]>>)
                            \o When(gotLayer, <<[res |-> "passthroughLayer", handle |-> layer]>>)
                    IN  /\ createFeature \/ featureOk
                        /\ createLayer \/ layerOk
                        /\ m_passthroughFeature' = feature
                        /\ m_passthroughLayer' = layer
                        /\ nextHandle' = IF gotLayer THEN next + 1 ELSE next
                        /\ liveHandles' = liveHandles \cup {entries[i].handle : i \in DOMAIN entries}
                        /\ xrCreated' = xrCreated \o entries
               ELSE /\ featureOk /\ layerOk
                    /\ UNCHANGED <<m_passthroughFeature, m_passthroughLayer, nextHandle,
                                   liveHandles, xrCreated>>
    /\ UNCHANGED <<initVars, keyVars, cacheVars, rotVars, toolVars, xrPhase, m_graphics, m_instance,
                   m_debugMessenger, m_session, m_appSpace, m_viewSpace, m_swapchains,
                   m_spaceExtension, m_inputManager, m_passthroughSupported,
                   m_spaceExtensionSupported, m_multiviewRendering, xrReleased, nTeardowns,
                   tickVars, m_errorString, m_swapchainArraySize, lastInitialize>>

\* the release calls of teardown(), in the order it makes them
teardown_releases_SessionBeforeSpaces ==
    When(m_inputManager, <<[res |-> "inputManager", handle |-> 0]>>)
    \o When(m_spaceExtension, <<[res |-> "spaceExtension", handle |-> 0]>>)
    \o When(m_passthroughLayer # 0,
            <<[res |-> "passthroughLayer", handle |-> m_passthroughLayer]>>)
    \o When(m_passthroughFeature # 0,
            <<[res |-> "passthroughFeature", handle |-> m_passthroughFeature]>>)
    \o [i \in DOMAIN m_swapchains |-> [res |-> "swapchain", handle |-> m_swapchains[i]]]
    \o <<[res |-> "session", handle |-> m_session]>>
    \o When(m_appSpace # 0, <<[res |-> "appSpace", handle |-> m_appSpace]>>)
    \o When(m_viewSpace # 0, <<[res |-> "viewSpace", handle |-> m_viewSpace]>>)
    \o When(m_debugMessenger # 0,
            <<[res |-> "debugMessenger", handle |-> m_debugMessenger]>>)
    \o <<[res |-> "instance", handle |-> m_instance]>>

teardown_releases_FeatureBeforeLayer ==
    When(m_inputManager, <<[res |-> "inputManager", handle |-> 0]>>)
    \o When(m_spaceExtension, <<[res |-> "spaceExtension", handle |-> 0]>>)
    \o When(m_passthroughFeature # 0,
            <<[res |-> "passthroughFeature", handle |-> m_passthroughFeature]>>)
    \o When(m_passthroughLayer # 0,
            <<[res |-> "passthroughLayer", handle |-> m_passthroughLayer]>>)
    \o [i \in DOMAIN m_swapchains |-> [res |-> "swapchain", handle |-> m_swapchains[i]]]
    \o When(m_appSpace # 0, <<[res |-> "appSpace", handle |-> m_appSpace]>>)
    \o When(m_viewSpace # 0, <<[res |-> "viewSpace", handle |-> m_viewSpace]>>)
    \o <<[res |-> "session", handle |-> m_session]>>
    \o When(m_debugMessenger # 0,
            <<[res |-> "debugMessenger", handle |-> m_debugMessenger]>>)
    \o <<[res |-> "instance", handle |-> m_instance]>>

teardown_releases ==
    When(m_inputManager, <<[res |-> "inputManager", handle |-> 0]>>)
    \o When(m_spaceExtension, <<[res |-> "spaceExtension", handle |-> 0]>>)
    \o When(m_passthroughLayer # 0,
            <<[res |-> "passthroughLayer", handle |-> m_passthroughLayer]>>)
    \o When(m_passthroughFeature # 0,
            <<[res |-> "passthroughFeature", handle |-> m_passthroughFeature]>>)
    \o [i \in DOMAIN m_swapchains |-> [res |-> "swapchain", handle |-> m_swapchains[i]]]
    \o When(m_appSpace # 0, <<[res |-> "appSpace", handle |-> m_appSpace]>>)
    \o When(m_viewSpace # 0, <<[res |-> "viewSpace", handle |-> m_viewSpace]>>)
    \o <<[res |-> "session", handle |-> m_session]>>
    \o When(m_debugMessenger # 0,
            <<[res |-> "debugMessenger", handle |-> m_debugMessenger]>>)
    \o <<[res |-> "instance", handle |-> m_instance]>>

\* teardown(), called explicitly and by the destructor
teardown ==
    /\ ~crashed
    /\ nTeardowns < MaxTeardowns
    /\ nTeardowns' = nTeardowns + 1
    /\ xrPhase' = "tornDown"
    /\ xrReleased' = teardown_releases
    /\ liveHandles' = liveHandles \ {teardown_releases[i].handle : i \in DOMAIN teardown_releases}
    /\ m_inputManager' = FALSE
    /\ m_spaceExtension' = FALSE
    /\ m_passthroughLayer' = 0
    /\ m_passthroughFeature' = 0
    /\ m_swapchains' = <<>>
    /\ m_swapchainArraySize' = <<>>
    /\ m_debugMessenger' = 0
    /\ UNCHANGED <<initVars, keyVars, cacheVars, rotVars, toolVars, m_graphics, m_instance, m_session,
                   m_appSpace, m_viewSpace, m_enablePassthrough, m_passthroughSupported,
                   m_spaceExtensionSupported, m_multiviewRendering, nextHandle, xrCreated,
                   nXrCalls, tickVars, m_errorString, lastInitialize>>

(***************************************************************************)
(* QOpenXRManager::processXrEvents(): pollEvents() and renderFrame().      *)
(* An event is [type, state, session]; a call made to the runtime is       *)
(* logged as [fn, h, res]: the function, the handle it was given and its   *)
(* result.  The operators below take and return a record of the members    *)
(* and logs the tick works on.                                             *)
(***************************************************************************)
XrEvent(type, state, session) == [type |-> type, state |-> state, session |-> session]
XrCall(fn, h, res) == [fn |-> fn, h |-> h, res |-> res]

\* event types pollEvents() hands to the space extension
SpaceExtensionEvents == {"SpaceSetStatusCompleteFB", "SpaceQueryResultsAvailableFB",
                         "SpaceQueryCompleteFB", "SceneCaptureCompleteFB"}

\* the runtime's answer to xrBeginSession and xrEndSession
xrBeginSession(h, live, begun) ==
    IF h \notin live THEN "XR_ERROR_HANDLE_INVALID"
    ELSE IF begun THEN "XR_ERROR_SESSION_RUNNING"
    ELSE "XR_SUCCESS"
xrEndSession(h, live, begun) ==
    IF h \notin live THEN "XR_ERROR_HANDLE_INVALID"
    ELSE IF ~begun THEN "XR_ERROR_SESSION_NOT_RUNNING"
    ELSE "XR_SUCCESS"

\* the lambda handleSessionStateChangedEvent of pollEvents()
handleSessionStateChangedEvent_StoppingKeepsRunning(p, ev) ==
    LET p1 == [p EXCEPT !.m_sessionState = ev.state]
        p2 == [p1 EXCEPT !.sessionLog = Append(@, ev.state)]
    IN  IF ev.session # 0 /\ ev.session # m_session
        THEN p1
        ELSE CASE ev.state = "Ready" ->
                    LET res == xrBeginSession(m_session, liveHandles, p2.sessionBegun)
                    IN  [p2 EXCEPT !.calls = Append(@, XrCall("xrBeginSession", m_session, res)),
                                   !.sessionBegun = @ \/ res = "XR_SUCCESS",
                                   !.m_sessionRunning = TRUE]
               [] ev.state = "Stopping" ->
                    LET res == xrEndSession(m_session, liveHandles, p2.sessionBegun)
                    IN  [p2 EXCEPT !.calls = Append(@, XrCall("xrEndSession", m_session, res)),
                                   !.sessionBegun = @ /\ res # "XR_SUCCESS"]
               [] ev.state = "Exiting" ->
                    [p2 EXCEPT !.exitRenderLoop = TRUE, !.requestRestart = FALSE]
               [] ev.state = "LossPending" ->
                    [p2 EXCEPT !.exitRenderLoop = TRUE, !.requestRestart = TRUE]
               [] OTHER -> p2

handleSessionStateChangedEvent(p, ev) ==
    LET p1 == [p EXCEPT !.m_sessionState = ev.state]
        p2 == [p1 EXCEPT !.sessionLog = Append(@, ev.state)]
    IN  IF ev.session # 0 /\ ev.session # m_session
        THEN p1
        ELSE CASE ev.state = "Ready" ->
                    LET res == xrBeginSession(m_session, liveHandles, p2.sessionBegun)
                    IN  [p2 EXCEPT !.calls = Append(@, XrCall("xrBeginSession", m_session, res)),
                                   !.sessionBegun = @ \/ res = "XR_SUCCESS",
                                   !.m_sessionRunning = TRUE]
               [] ev.state = "Stopping" ->
                    LET res == xrEndSession(m_session, liveHandles, p2.sessionBegun)
                    IN  [p2 EXCEPT !.m_sessionRunning = FALSE,
                                   !.calls = Append(@, XrCall("xrEndSession", m_session, res)),
                                   !.sessionBegun = @ /\ res # "XR_SUCCESS"]
               [] ev.state = "Exiting" ->
                    [p2 EXCEPT !.exitRenderLoop = TRUE, !.requestRestart = FALSE]
               [] ev.state = "LossPending" ->
                    [p2 EXCEPT !.exitRenderLoop = TRUE, !.requestRestart = TRUE]
               [] OTHER -> p2

\* the while loop of pollEvents(): p.queue is what the runtime still holds,
\* p.polled what readNextEvent() has returned
RECURSIVE pollLoop(_)
pollLoop(p) ==
    IF p.queue = <<>>
    THEN p
    ELSE LET ev == Head(p.queue)
             p1 == [p EXCEPT !.queue = Tail(@), !.polled = Append(@, ev)]
         IN  CASE ev.type = "InstanceLossPending" ->
                     [p1 EXCEPT !.exitRenderLoop = TRUE, !.requestRestart = TRUE]
                [] ev.type = "SessionStateChanged" ->
                     pollLoop(handleSessionStateChangedEvent(p1, ev))
                [] ev.type \in SpaceExtensionEvents ->
                     pollLoop(IF m_spaceExtension
                              THEN [p1 EXCEPT !.calls = Append(@, XrCall("handleEvent", 0, ev.type))]
                              ELSE p1)
                [] OTHER -> pollLoop(p1)

\* pollEvents(&exitRenderLoop, &requestRestart)
pollEvents ==
    pollLoop([ queue |-> eventQueue, polled |-> <<>>, calls |-> <<>>,
               exitRenderLoop |-> FALSE, requestRestart |-> FALSE,
               m_sessionState |-> m_sessionState, m_sessionRunning |-> m_sessionRunning,
               sessionBegun |-> sessionBegun, sessionLog |-> sessionLog ])

\* a call logged in the frame record f
Log(f, fn, h, res) == [f EXCEPT !.calls = Append(@, XrCall(fn, h, res))]
Emit(f, signal) == [f EXCEPT !.signals = Append(@, signal)]

\* xrCreateReferenceSpace(m_session, ..): the runtime hands out f.nextHandle
xrCreateReferenceSpace(f, ok) ==
    IF ok
    THEN [Log(f, "xrCreateReferenceSpace", m_session, "XR_SUCCESS")
             EXCEPT !.nextHandle = @ + 1, !.liveHandles = @ \cup {f.nextHandle}]
    ELSE Log(f, "xrCreateReferenceSpace", m_session, "XR_ERROR_RUNTIME_FAILURE")

xrDestroySpace(f, h) ==
    [Log(f, "xrDestroySpace", h,
         IF h \in f.liveHandles THEN "XR_SUCCESS" ELSE "XR_ERROR_HANDLE_INVALID")
        EXCEPT !.liveHandles = @ \ {h}]

\* the new app space of f: handle h, created with createInfo
NewAppSpace(f, h, type, createInfo) ==
    [f EXCEPT !.m_appSpace = h, !.m_referenceSpace = type,
              !.appSpaceCreateInfo = createInfo,
              !.xrCreated = Append(@, [res |-> "appSpace", handle |-> h])]

\* resetEmulatedFloorHeight(): floorFail names the call that fails, "none"
\* when all succeed, stageY is stageLocation.pose.position.y as xrLocateSpace
\* reports it; the result is [f, ok]
resetEmulatedFloorHeight_IgnoresLocateFailure(f0, floorFail, stageY) ==
    LET f1 == [f0 EXCEPT !.m_isFloorResetPending = FALSE]
        located == floorFail \notin {"local", "stage", "locate"}
        \* the app space is replaced by the new one
        ResetCreated(f6, newAppSpace) ==
            IF floorFail = "app" THEN [f |-> f6, ok |-> FALSE]
            ELSE [f |-> Emit(NewAppSpace(xrDestroySpace(f6, f6.m_appSpace), newAppSpace,
                                         "LocalFloor", CreateInfo("Local", stageY)),
                             "referenceSpaceChanged"),
                  ok |-> TRUE]
        \* the two spaces are destroyed; the new app space is created
        ResetDestroyed(f5) ==
            ResetCreated(xrCreateReferenceSpace(f5, floorFail # "app"), f5.nextHandle)
        \* the stage space is located in the local space
        ResetStage(f3, localSpace, stageSpace) ==
            IF floorFail = "stage" THEN [f |-> xrDestroySpace(f3, localSpace), ok |-> FALSE]
            ELSE ResetDestroyed(
                     xrDestroySpace(
                         xrDestroySpace(
                             [Log(f3, "xrLocateSpace", stageSpace,
                                  IF located THEN "XR_SUCCESS" ELSE "XR_ERROR_RUNTIME_FAILURE")
                                 EXCEPT !.nStageLocates = IF located THEN @ + 1 ELSE @],
                             localSpace),
                         stageSpace))
        \* the local space is created; the stage space is created
        ResetLocal(f2, localSpace) ==
            IF floorFail = "local" THEN [f |-> f2, ok |-> FALSE]
            ELSE ResetStage(xrCreateReferenceSpace(f2, floorFail # "stage"), localSpace,
                            f2.nextHandle)
    IN  ResetLocal(xrCreateReferenceSpace(f1, floorFail # "local"), f1.nextHandle)

resetEmulatedFloorHeight_IdentityPose(f0, floorFail, stageY) ==
    LET f1 == [f0 EXCEPT !.m_isFloorResetPending = FALSE]
        located == floorFail \notin {"local", "stage", "locate"}
        \* the app space is replaced by the new one
        ResetCreated(f6, newAppSpace) ==
            IF floorFail = "app" THEN [f |-> f6, ok |-> FALSE]
            ELSE [f |-> Emit(NewAppSpace(xrDestroySpace(f6, f6.m_appSpace), newAppSpace,
                                         "LocalFloor", CreateInfo("Local", 0)),
                             "referenceSpaceChanged"),
                  ok |-> TRUE]
        \* the two spaces are destroyed; the new app space is created
        ResetDestroyed(f5) ==
            IF floorFail = "locate" THEN [f |-> f5, ok |-> FALSE]
            ELSE ResetCreated(xrCreateReferenceSpace(f5, floorFail # "app"), f5.nextHandle)
        \* the stage space is located in the local space
        ResetStage(f3, localSpace, stageSpace) ==
            IF floorFail = "stage" THEN [f |-> xrDestroySpace(f3, localSpace), ok |-> FALSE]
            ELSE ResetDestroyed(
                     xrDestroySpace(
                         xrDestroySpace(
                             [Log(f3, "xrLocateSpace", stageSpace,
                                  IF located THEN "XR_SUCCESS" ELSE "XR_ERROR_RUNTIME_FAILURE")
                                 EXCEPT !.nStageLocates = IF located THEN @ + 1 ELSE @],
                             localSpace),
                         stageSpace))
        \* the local space is created; the stage space is created
        ResetLocal(f2, localSpace) ==
            IF floorFail = "local" THEN [f |-> f2, ok |-> FALSE]
            ELSE ResetStage(xrCreateReferenceSpace(f2, floorFail # "stage"), localSpace,
                            f2.nextHandle)
    IN  ResetLocal(xrCreateReferenceSpace(f1, floorFail # "local"), f1.nextHandle)

resetEmulatedFloorHeight(f0, floorFail, stageY) ==
    LET f1 == [f0 EXCEPT !.m_isFloorResetPending = FALSE]
        located == floorFail \notin {"local", "stage", "locate"}
        \* the app space is replaced by the new one
        ResetCreated(f6, newAppSpace) ==
            IF floorFail = "app" THEN [f |-> f6, ok |-> FALSE]
            ELSE [f |-> Emit(NewAppSpace(xrDestroySpace(f6, f6.m_appSpace), newAppSpace,
                                         "LocalFloor", CreateInfo("Local", stageY)),
                             "referenceSpaceChanged"),
                  ok |-> TRUE]
        \* the two spaces are destroyed; the new app space is created
        ResetDestroyed(f5) ==
            IF floorFail = "locate" THEN [f |-> f5, ok |-> FALSE]
            ELSE ResetCreated(xrCreateReferenceSpace(f5, floorFail # "app"), f5.nextHandle)
        \* the stage space is located in the local space
        ResetStage(f3, localSpace, stageSpace) ==
            IF floorFail = "stage" THEN [f |-> xrDestroySpace(f3, localSpace), ok |-> FALSE]
            ELSE ResetDestroyed(
                     xrDestroySpace(
                         xrDestroySpace(
                             [Log(f3, "xrLocateSpace", stageSpace,
                                  IF located THEN "XR_SUCCESS" ELSE "XR_ERROR_RUNTIME_FAILURE")
                                 EXCEPT !.nStageLocates = IF located THEN @ + 1 ELSE @],
                             localSpace),
                         stageSpace))
        \* the local space is created; the stage space is created
        ResetLocal(f2, localSpace) ==
            IF floorFail = "local" THEN [f |-> f2, ok |-> FALSE]
            ELSE ResetStage(xrCreateReferenceSpace(f2, floorFail # "stage"), localSpace,
                            f2.nextHandle)
    IN  ResetLocal(xrCreateReferenceSpace(f1, floorFail # "local"), f1.nextHandle)

\* updateAppSpace(): in.setupOk is whether setupAppSpace()'s
\* xrCreateReferenceSpace succeeds, in.floorFail and in.stageY as above;
\* f.rebuild and f.floorReset record what the call tried and how it ended
updateAppSpace_RetriesEmulation(f, in) ==
    LET rebuild == /\ f.m_requestedReferenceSpace # f.m_referenceSpace
                   /\ ~f.m_isFloorResetPending
        \* if (m_isFloorResetPending) resetEmulatedFloorHeight()
        UpdateReset(reset) ==
            IF reset.ok
            THEN [reset.f EXCEPT !.floorReset = "ok", !.floorResets = Append(@, TRUE)]
            ELSE Emit([reset.f EXCEPT !.floorReset = "failed",
                                      !.floorResets = Append(@, FALSE)],
                      "referenceSpaceChanged")
        UpdateFloor(afterSetup) ==
            IF ~afterSetup.m_isFloorResetPending THEN afterSetup
            ELSE UpdateReset(resetEmulatedFloorHeight(afterSetup, in.floorFail, in.stageY))
        \* setupAppSpace(): the new space replaces m_appSpace, or the request is reverted
        UpdateCreated(g1, r, newAppSpace) ==
            IF ~in.setupOk
            THEN [g1 EXCEPT !.m_requestedReferenceSpace = g1.m_referenceSpace, !.rebuild = "failed"]
            ELSE UpdateFloor(
                     [NewAppSpace(IF g1.m_appSpace # 0 THEN xrDestroySpace(g1, g1.m_appSpace)
                                  ELSE g1,
                                  newAppSpace, r.type, CreateInfo(r.type, 0))
                         EXCEPT !.signals = @ \o r.signals, !.rebuild = "ok"])
        UpdateSetup(r) ==
            UpdateCreated(
                xrCreateReferenceSpace(
                    [f EXCEPT !.m_isEmulatingLocalFloor = r.m_isEmulatingLocalFloor,
                              !.m_isFloorResetPending = r.m_isFloorResetPending,
                              !.lastSetup = SetupRecord(f.m_requestedReferenceSpace,
                                                        m_availableReferenceSpace, r)],
                    in.setupOk),
                r, f.nextHandle)
    IN  IF rebuild
        THEN UpdateSetup(setupAppSpace(f.m_requestedReferenceSpace, m_availableReferenceSpace,
                                       f.m_isFloorResetPending, in.setupOk))
        ELSE UpdateFloor(f)

updateAppSpace_KeepsRequestOnFailure(f, in) ==
    LET rebuild == /\ f.m_requestedReferenceSpace # f.m_referenceSpace
                   /\ ~f.m_isFloorResetPending
        \* if (m_isFloorResetPending) resetEmulatedFloorHeight()
        UpdateReset(reset) ==
            IF reset.ok
            THEN [reset.f EXCEPT !.floorReset = "ok", !.floorResets = Append(@, TRUE)]
            ELSE Emit([reset.f EXCEPT !.m_requestedReferenceSpace = "Local", !.floorReset = "failed",
                                      !.floorResets = Append(@, FALSE)],
                      "referenceSpaceChanged")
        UpdateFloor(afterSetup) ==
            IF ~afterSetup.m_isFloorResetPending THEN afterSetup
            ELSE UpdateReset(resetEmulatedFloorHeight(afterSetup, in.floorFail, in.stageY))
        \* setupAppSpace(): the new space replaces m_appSpace, or the request is reverted
        UpdateCreated(g1, r, newAppSpace) ==
            IF ~in.setupOk
            THEN [g1 EXCEPT !.rebuild = "failed"]
            ELSE UpdateFloor(
                     [NewAppSpace(IF g1.m_appSpace # 0 THEN xrDestroySpace(g1, g1.m_appSpace)
                                  ELSE g1,
                                  newAppSpace, r.type, CreateInfo(r.type, 0))
                         EXCEPT !.signals = @ \o r.signals, !.rebuild = "ok"])
        UpdateSetup(r) ==
            UpdateCreated(
                xrCreateReferenceSpace(
                    [f EXCEPT !.m_isEmulatingLocalFloor = r.m_isEmulatingLocalFloor,
                              !.m_isFloorResetPending = r.m_isFloorResetPending,
                              !.lastSetup = SetupRecord(f.m_requestedReferenceSpace,
                                                        m_availableReferenceSpace, r)],
                    in.setupOk),
                r, f.nextHandle)
    IN  IF rebuild
        THEN UpdateSetup(setupAppSpace(f.m_requestedReferenceSpace, m_availableReferenceSpace,
                                       f.m_isFloorResetPending, in.setupOk))
        ELSE UpdateFloor(f)

updateAppSpace(f, in) ==
    LET rebuild == /\ f.m_requestedReferenceSpace # f.m_referenceSpace
                   /\ ~f.m_isFloorResetPending
        \* if (m_isFloorResetPending) resetEmulatedFloorHeight()
        UpdateReset(reset) ==
            IF reset.ok
            THEN [reset.f EXCEPT !.floorReset = "ok", !.floorResets = Append(@, TRUE)]
            ELSE Emit([reset.f EXCEPT !.m_requestedReferenceSpace = "Local", !.floorReset = "failed",
                                      !.floorResets = Append(@, FALSE)],
                      "referenceSpaceChanged")
        UpdateFloor(afterSetup) ==
            IF ~afterSetup.m_isFloorResetPending THEN afterSetup
            ELSE UpdateReset(resetEmulatedFloorHeight(afterSetup, in.floorFail, in.stageY))
        \* setupAppSpace(): the new space replaces m_appSpace, or the request is reverted
        UpdateCreated(g1, r, newAppSpace) ==
            IF ~in.setupOk
            THEN [g1 EXCEPT !.m_requestedReferenceSpace = g1.m_referenceSpace, !.rebuild = "failed"]
            ELSE UpdateFloor(
                     [NewAppSpace(IF g1.m_appSpace # 0 THEN xrDestroySpace(g1, g1.m_appSpace)
                                  ELSE g1,
                                  newAppSpace, r.type, CreateInfo(r.type, 0))
                         EXCEPT !.signals = @ \o r.signals, !.rebuild = "ok"])
        UpdateSetup(r) ==
            UpdateCreated(
                xrCreateReferenceSpace(
                    [f EXCEPT !.m_isEmulatingLocalFloor = r.m_isEmulatingLocalFloor,
                              !.m_isFloorResetPending = r.m_isFloorResetPending,
                              !.lastSetup = SetupRecord(f.m_requestedReferenceSpace,
                                                        m_availableReferenceSpace, r)],
                    in.setupOk),
                r, f.nextHandle)
    IN  IF rebuild
        THEN UpdateSetup(setupAppSpace(f.m_requestedReferenceSpace, m_availableReferenceSpace,
                                       f.m_isFloorResetPending, in.setupOk))
        ELSE UpdateFloor(f)

\* updateCameraMultiview() / updateCameraNonMultiview(): the eye cameras the
\* rendering of one swapchain image updates
updateCamera ==
    [i \in 1..(IF m_multiviewRendering THEN m_views ELSE 1) |-> "eye"]

\* qint64 division, which truncates towards zero
TruncDiv(a, b) == IF a >= 0 THEN a \div b ELSE -((-a) \div b)

NsPerMs == 1000000

\* the step renderLayer() gives the animation driver
setStep_Unclamped(previousTime, predictedDisplayTime, predictedDisplayPeriod) ==
    LET displayPeriodMS == TruncDiv(predictedDisplayPeriod, NsPerMs)
        displayDeltaMS == TruncDiv(predictedDisplayTime - previousTime, NsPerMs)
    IN  IF previousTime = 0 THEN displayPeriodMS ELSE displayDeltaMS

setStep(previousTime, predictedDisplayTime, predictedDisplayPeriod) ==
    LET displayPeriodMS == TruncDiv(predictedDisplayPeriod, NsPerMs)
        displayDeltaMS == TruncDiv(predictedDisplayTime - previousTime, NsPerMs)
    IN  IF previousTime = 0 THEN displayPeriodMS
        ELSE IF displayDeltaMS > displayPeriodMS THEN displayPeriodMS
        ELSE displayDeltaMS

\* checkOrigin(): in.originInScene is whether the scene holds an XrOrigin
checkOrigin(f, in) == [f EXCEPT !.m_xrOrigin = @ \/ in.originInScene]

\* the head camera after xrLocateSpace(m_viewSpace, m_appSpace, ..): in.headPose
\* is the location the runtime reports, in metres.  m_xrOrigin->camera() is
\* called without a null test: with m_xrOrigin null the behaviour is undefined,
\* and in.nullDeref is what becomes of it, the process dying ("crash") or
\* going on with no camera written ("continues")
locateHead_ResetsOnFailure(f, in) ==
    IF in.headOk /\ ~f.m_xrOrigin
    THEN [Log(f, "xrLocateSpace", m_viewSpace, "XR_SUCCESS")
             EXCEPT !.nullDerefs = @ + 1, !.crashed = (in.nullDeref = "crash")]
    ELSE [Log(f, "xrLocateSpace", m_viewSpace,
              IF in.headOk THEN "XR_SUCCESS" ELSE "XR_ERROR_RUNTIME_FAILURE")
             EXCEPT !.camera = IF in.headOk
                               THEN [position |-> in.headPose.position * 100,
                                     rotation |-> in.headPose.rotation]
                               ELSE NoPose,
                    !.cameraUpdates = IF in.headOk THEN Append(@, "head") ELSE @]

locateHead(f, in) ==
    IF in.headOk /\ ~f.m_xrOrigin
    THEN [Log(f, "xrLocateSpace", m_viewSpace, "XR_SUCCESS")
             EXCEPT !.nullDerefs = @ + 1, !.crashed = (in.nullDeref = "crash")]
    ELSE [Log(f, "xrLocateSpace", m_viewSpace,
              IF in.headOk THEN "XR_SUCCESS" ELSE "XR_ERROR_RUNTIME_FAILURE")
             EXCEPT !.camera = IF in.headOk
                               THEN [position |-> in.headPose.position * 100,
                                     rotation |-> in.headPose.rotation]
                               ELSE @,
                    !.cameraUpdates = IF in.headOk THEN Append(@, "head") ELSE @]

\* acquire, wait, render and release the image of each swapchain in handles
RECURSIVE renderSwapchains_ReleaseBeforeRender(_, _)
renderSwapchains_ReleaseBeforeRender(f, handles) ==
    IF handles = <<>>
    THEN f
    ELSE LET h == Head(handles)
         IN  renderSwapchains_ReleaseBeforeRender(
                 [Log(Log(Log(Log(f, "xrAcquireSwapchainImage", h, "XR_SUCCESS"),
                              "xrWaitSwapchainImage", h, "XR_SUCCESS"),
                          "xrReleaseSwapchainImage", h, "XR_SUCCESS"),
                      "doRender", h, "XR_SUCCESS")
                     EXCEPT !.cameraUpdates = @ \o When(f.m_xrOrigin, updateCamera)],
                 Tail(handles))

RECURSIVE renderSwapchains(_, _)
renderSwapchains(f, handles) ==
    IF handles = <<>>
    THEN f
    ELSE LET h == Head(handles)
         IN  renderSwapchains(
                 [Log(Log(Log(Log(f, "xrAcquireSwapchainImage", h, "XR_SUCCESS"),
                              "xrWaitSwapchainImage", h, "XR_SUCCESS"),
                          "doRender", h, "XR_SUCCESS"),
                      "xrReleaseSwapchainImage", h, "XR_SUCCESS")
                     EXCEPT !.cameraUpdates = @ \o When(f.m_xrOrigin, updateCamera)],
                 Tail(handles))

\* renderLayer(): the result is [f, ok]
renderLayer_IgnoresLocateViews(f, in) ==
    LET handles == IF m_multiviewRendering
                   THEN <<m_swapchains[1]>>
                   ELSE [i \in 1..m_views |-> m_swapchains[i]]
        \* the animation driver is stepped, then each swapchain is rendered
        LayerRender(f3) ==
            IF f3.crashed THEN f3 ELSE
            renderSwapchains(
                [f3 EXCEPT !.steps = Append(@, setStep(f3.m_previousTime,
                                                       in.predictedDisplayTime,
                                                       in.predictedDisplayPeriod)),
                           !.advances = IF f3.m_previousTime = 0 THEN @ ELSE @ + 1,
                           !.m_previousTime = in.predictedDisplayTime],
                handles)
        LayerViews(f2) ==
            [f |-> LayerRender(locateHead(checkOrigin(f2, in), in)), ok |-> TRUE]
        LayerSpace(f1) ==
            LayerViews(Log(f1, "xrLocateViews", f1.m_appSpace,
                           IF in.locateViewsOk THEN "XR_SUCCESS"
                           ELSE "XR_SESSION_LOSS_PENDING"))
    IN  LayerSpace(updateAppSpace(f, in))

renderLayer(f, in) ==
    LET handles == IF m_multiviewRendering
                   THEN <<m_swapchains[1]>>
                   ELSE [i \in 1..m_views |-> m_swapchains[i]]
        \* the animation driver is stepped, then each swapchain is rendered
        LayerRender(f3) ==
            IF f3.crashed THEN f3 ELSE
            renderSwapchains(
                [f3 EXCEPT !.steps = Append(@, setStep(f3.m_previousTime,
                                                       in.predictedDisplayTime,
                                                       in.predictedDisplayPeriod)),
                           !.advances = IF f3.m_previousTime = 0 THEN @ ELSE @ + 1,
                           !.m_previousTime = in.predictedDisplayTime],
                handles)
        LayerViews(f2) ==
            IF in.locateViewsOk
            THEN [f |-> LayerRender(locateHead(checkOrigin(f2, in), in)), ok |-> TRUE]
            ELSE [f |-> f2, ok |-> FALSE]
        LayerSpace(f1) ==
            LayerViews(Log(f1, "xrLocateViews", f1.m_appSpace,
                           IF in.locateViewsOk THEN "XR_SUCCESS"
                           ELSE "XR_SESSION_LOSS_PENDING"))
    IN  LayerSpace(updateAppSpace(f, in))

\* renderFrame(): in.shouldRender is what xrWaitFrame reports, in.layerOk
\* whether the runtime creates a passthrough layer when asked to
renderFrame_NoEndFrameOnFailure(f, in) ==
    LET passthrough == m_enablePassthrough /\ m_passthroughSupported
        FrameEnd(f4) ==
            [Log(f4, "xrEndFrame", m_session, "XR_SUCCESS")
                EXCEPT !.blendMode = IF ~m_enablePassthrough THEN m_environmentBlendMode
                                     ELSE "Opaque"]
        FrameProjection(rl) ==
            IF rl.ok /\ ~rl.f.crashed
            THEN FrameEnd([rl.f EXCEPT !.layers = Append(@, "projection")])
            ELSE rl.f
        FrameLayers(f3) ==
            IF ~in.shouldRender THEN FrameEnd(f3) ELSE FrameProjection(renderLayer(f3, in))
        FramePassthrough(f2) ==
            FrameLayers(IF passthrough THEN [f2 EXCEPT !.layers = Append(@, "passthrough")]
                        ELSE f2)
        FrameBegun(f1) ==
            LET createLayer == passthrough /\ f1.m_passthroughLayer = 0
                gotLayer == /\ createLayer /\ in.layerOk
                            /\ m_session \in f1.liveHandles /\ m_passthroughFeature # 0
            IN  FramePassthrough(
                    IF gotLayer
                    THEN [Log(f1, "xrCreatePassthroughLayerFB", m_passthroughFeature,
                              "XR_SUCCESS")
                             EXCEPT !.m_passthroughLayer = f1.nextHandle,
                                    !.nextHandle = @ + 1,
                                    !.liveHandles = @ \cup {f1.nextHandle},
                                    !.xrCreated = Append(@, [res |-> "passthroughLayer",
                                                             handle |-> f1.nextHandle])]
                    ELSE IF createLayer
                    THEN Log(f1, "xrCreatePassthroughLayerFB", m_passthroughFeature,
                             "XR_ERROR_RUNTIME_FAILURE")
                    ELSE f1)
    IN  FrameBegun(Log(Log(f, "xrWaitFrame", m_session, "XR_SUCCESS"),
                       "xrBeginFrame", m_session, "XR_SUCCESS"))

renderFrame_IgnoresShouldRender(f, in) ==
    LET passthrough == m_enablePassthrough /\ m_passthroughSupported
        FrameEnd(f4) ==
            [Log(f4, "xrEndFrame", m_session, "XR_SUCCESS")
                EXCEPT !.blendMode = IF ~m_enablePassthrough THEN m_environmentBlendMode
                                     ELSE "Opaque"]
        FrameProjection(rl) ==
            IF rl.f.crashed THEN rl.f
            ELSE FrameEnd(IF rl.ok THEN [rl.f EXCEPT !.layers = Append(@, "projection")]
                          ELSE rl.f)
        FrameLayers(f3) ==
            FrameProjection(renderLayer(f3, in))
        FramePassthrough(f2) ==
            FrameLayers(IF passthrough THEN [f2 EXCEPT !.layers = Append(@, "passthrough")]
                        ELSE f2)
        FrameBegun(f1) ==
            LET createLayer == passthrough /\ f1.m_passthroughLayer = 0
                gotLayer == /\ createLayer /\ in.layerOk
                            /\ m_session \in f1.liveHandles /\ m_passthroughFeature # 0
            IN  FramePassthrough(
                    IF gotLayer
                    THEN [Log(f1, "xrCreatePassthroughLayerFB", m_passthroughFeature,
                              "XR_SUCCESS")
                             EXCEPT !.m_passthroughLayer = f1.nextHandle,
                                    !.nextHandle = @ + 1,
                                    !.liveHandles = @ \cup {f1.nextHandle},
                                    !.xrCreated = Append(@, [res |-> "passthroughLayer",
                                                             handle |-> f1.nextHandle])]
                    ELSE IF createLayer
                    THEN Log(f1, "xrCreatePassthroughLayerFB", m_passthroughFeature,
                             "XR_ERROR_RUNTIME_FAILURE")
                    ELSE f1)
    IN  FrameBegun(Log(Log(f, "xrWaitFrame", m_session, "XR_SUCCESS"),
                       "xrBeginFrame", m_session, "XR_SUCCESS"))

renderFrame(f, in) ==
    LET passthrough == m_enablePassthrough /\ m_passthroughSupported
        FrameEnd(f4) ==
            [Log(f4, "xrEndFrame", m_session, "XR_SUCCESS")
                EXCEPT !.blendMode = IF ~m_enablePassthrough THEN m_environmentBlendMode
                                     ELSE "Opaque"]
        FrameProjection(rl) ==
            IF rl.f.crashed THEN rl.f
            ELSE FrameEnd(IF rl.ok THEN [rl.f EXCEPT !.layers = Append(@, "projection")]
                          ELSE rl.f)
        FrameLayers(f3) ==
            IF ~in.shouldRender THEN FrameEnd(f3) ELSE FrameProjection(renderLayer(f3, in))
        FramePassthrough(f2) ==
            FrameLayers(IF passthrough THEN [f2 EXCEPT !.layers = Append(@, "passthrough")]
                        ELSE f2)
        FrameBegun(f1) ==
            LET createLayer == passthrough /\ f1.m_passthroughLayer = 0
                gotLayer == /\ createLayer /\ in.layerOk
                            /\ m_session \in f1.liveHandles /\ m_passthroughFeature # 0
            IN  FramePassthrough(
                    IF gotLayer
                    THEN [Log(f1, "xrCreatePassthroughLayerFB", m_passthroughFeature,
                              "XR_SUCCESS")
                             EXCEPT !.m_passthroughLayer = f1.nextHandle,
                                    !.nextHandle = @ + 1,
                                    !.liveHandles = @ \cup {f1.nextHandle},
                                    !.xrCreated = Append(@, [res |-> "passthroughLayer",
                                                             handle |-> f1.nextHandle])]
                    ELSE IF createLayer
                    THEN Log(f1, "xrCreatePassthroughLayerFB", m_passthroughFeature,
                             "XR_ERROR_RUNTIME_FAILURE")
                    ELSE f1)
    IN  FrameBegun(Log(Log(f, "xrWaitFrame", m_session, "XR_SUCCESS"),
                       "xrBeginFrame", m_session, "XR_SUCCESS"))

\* the members and logs a frame works on, as the tick finds them
FrameStart ==
    [ calls |-> <<>>, signals |-> <<>>, layers |-> <<>>, blendMode |-> "none",
      m_passthroughLayer |-> m_passthroughLayer, nextHandle |-> nextHandle,
      liveHandles |-> liveHandles, xrCreated |-> xrCreated, m_appSpace |-> m_appSpace,
      m_referenceSpace |-> m_referenceSpace,
      m_requestedReferenceSpace |-> m_requestedReferenceSpace,
      m_isEmulatingLocalFloor |-> m_isEmulatingLocalFloor,
      m_isFloorResetPending |-> m_isFloorResetPending, lastSetup |-> lastSetup,
      nStageLocates |-> nStageLocates, floorResets |-> floorResets,
      m_previousTime |-> m_previousTime, camera |-> camera,
      appSpaceCreateInfo |-> appSpaceCreateInfo,
      m_xrOrigin |-> m_xrOrigin, crashed |-> FALSE, nullDerefs |-> 0,
      rebuild |-> "none", floorReset |-> "none", steps |-> <<>>, advances |-> 0,
      cameraUpdates |-> <<>> ]

\* the inputs of a tick in which no frame is rendered
NoFrameInput == [shouldRender |-> FALSE, layerOk |-> TRUE, setupOk |-> TRUE,
                 floorFail |-> "none", locateViewsOk |-> TRUE, headOk |-> TRUE,
                 stageY |-> 0, headPose |-> NoPose,
                 originInScene |-> TRUE, nullDeref |-> "continues",
                 predictedDisplayTime |-> 16 * NsPerMs,
                 predictedDisplayPeriod |-> 16 * NsPerMs]

\* the UpdateRequest events a processXrEvents() call posts: update() is its
\* last statement, reached unless the process died in the frame
updateRequests_StopsAtExit(exitRenderLoop, sessionRunning, died) ==
    IF died \/ exitRenderLoop THEN 0 ELSE 1

updateRequests(exitRenderLoop, sessionRunning, died) == IF died THEN 0 ELSE 1

\* processXrEvents(), the handler of an UpdateRequest event; in: what the
\* runtime reports and answers during the frame
processXrEvents(in) ==
    /\ xrPhase = "initialized"
    /\ ~crashed
    /\ nTicks < MaxTicks
    /\ \E p \in {pollEvents} :
       \E f \in {IF p.m_sessionRunning
                 THEN renderFrame(Log(FrameStart, "pollActions", 0, "XR_SUCCESS"), in)
                 ELSE FrameStart} :
           /\ p.m_sessionRunning \/ in = NoFrameInput
           /\ eventQueue' = p.queue
           /\ m_sessionState' = p.m_sessionState
           /\ m_sessionRunning' = p.m_sessionRunning
           /\ sessionBegun' = p.sessionBegun
           /\ sessionLog' = p.sessionLog
           /\ m_passthroughLayer' = f.m_passthroughLayer
           /\ nextHandle' = f.nextHandle
           /\ liveHandles' = f.liveHandles
           /\ xrCreated' = f.xrCreated
           /\ m_appSpace' = f.m_appSpace
           /\ m_referenceSpace' = f.m_referenceSpace
           /\ m_requestedReferenceSpace' = f.m_requestedReferenceSpace
           /\ m_isEmulatingLocalFloor' = f.m_isEmulatingLocalFloor
           /\ m_isFloorResetPending' = f.m_isFloorResetPending
           /\ lastSetup' = f.lastSetup
           /\ nStageLocates' = f.nStageLocates
           /\ floorResets' = f.floorResets
           /\ m_previousTime' = f.m_previousTime
           /\ camera' = f.camera
           /\ appSpaceCreateInfo' = f.appSpaceCreateInfo
           /\ m_xrOrigin' = f.m_xrOrigin
           /\ crashed' = f.crashed
           /\ tick' = [ polled |-> p.polled,
                        pending |-> Len(p.queue),
                        exitRenderLoop |-> p.exitRenderLoop,
                        requestRestart |-> p.requestRestart,
                        calls |-> p.calls \o f.calls,
                        signals |-> When(p.exitRenderLoop, <<"sessionEnded">>) \o f.signals,
                        frames |-> When(p.m_sessionRunning,
                                        << [ shouldRender |-> in.shouldRender,
                                             enablePassthrough |-> m_enablePassthrough,
                                             passthroughSupported |-> m_passthroughSupported,
                                             configured |-> m_environmentBlendMode,
                                             layers |-> f.layers,
                                             blendMode |-> f.blendMode,
                                             predictedDisplayTime |-> in.predictedDisplayTime,
                                             predictedDisplayPeriod |-> in.predictedDisplayPeriod,
                                             stageY |-> in.stageY,
                                             rebuild |-> f.rebuild,
                                             floorReset |-> f.floorReset,
                                             steps |-> f.steps,
                                             advances |-> f.advances,
                                             cameraUpdates |-> f.cameraUpdates,
                                             nullDerefs |-> f.nullDerefs ] >>),
                        updates |-> updateRequests(p.exitRenderLoop, p.m_sessionRunning,
                                                   f.crashed) ]
    /\ nTicks' = nTicks + 1
    /\ UNCHANGED <<initVars, keyVars, cacheVars, rotVars, toolVars, xrPhase, m_graphics, m_instance,
                   m_debugMessenger, m_session, m_viewSpace, m_passthroughFeature,
                   m_swapchains, m_spaceExtension, m_inputManager, m_enablePassthrough,
                   m_passthroughSupported, m_spaceExtensionSupported, m_multiviewRendering,
                   xrReleased, nTeardowns, nXrCalls, m_availableReferenceSpace,
                   m_environmentBlendMode, m_views, nEvents, m_errorString,
                   m_swapchainArraySize, lastInitialize>>

\* the runtime queues an event for xrPollEvent to return
xrPollEvent_queued(ev) ==
    /\ xrPhase = "initialized"
    /\ ~crashed
    /\ nEvents < MaxEvents
    /\ nEvents' = nEvents + 1
    /\ eventQueue' = Append(eventQueue, ev)
    /\ UNCHANGED <<initVars, keyVars, cacheVars, rotVars, toolVars, xrPhase, m_graphics, xrHandleVars,
                   m_spaceExtension, m_inputManager, m_enablePassthrough,
                   m_passthroughSupported, m_spaceExtensionSupported, m_multiviewRendering,
                   nextHandle, liveHandles, xrCreated, xrReleased, nTeardowns, nXrCalls,
                   m_sessionState, m_sessionRunning, spaceVars, m_environmentBlendMode,
                   m_views, sessionBegun, sessionLog, tick, nTicks, frameVars,
                   m_errorString, m_swapchainArraySize, lastInitialize>>

InitXr == PropertiesConstructed /\ KeyConstructed /\ CacheConstructed /\ RotationConstructed /\ ToolsConstructed /\ XrConstructed

NextXr ==
    \/ \E failAt \in {InitSteps[i] : i \in DOMAIN InitSteps},
          debugUtils, spaceExt, passthrough, multiview \in BOOLEAN,
          viewCount \in 1..MaxViews :
          initialize(failAt, debugUtils, spaceExt, passthrough, multiview, viewCount,
                     {"View", "Local", "Stage"}, TRUE, 0, 0)
    \/ \E enabled, featureOk, layerOk \in BOOLEAN :
          setPassthroughEnabled(enabled, featureOk, layerOk)
    \/ teardown

SpecXr == InitXr /\ [][NextXr]_vars


(***************************************************************************)
(* SpecTick: a manager that initialize()d successfully, the runtime        *)
(* queueing events and the ticks polling them.                             *)
(***************************************************************************)
\* the handle of a session that is not the manager's
OtherSession == 99

SessionStates == {"Ready", "Focused", "Stopping", "Exiting", "LossPending"}

\* the events the runtime queues
TickEvents ==
    {XrEvent("SessionStateChanged", st, ss) :
        st \in SessionStates, ss \in {m_session, OtherSession}}
    \cup {XrEvent(t, "Unknown", 0) :
            t \in {"InstanceLossPending", "InteractionProfileChanged", "SpaceQueryCompleteFB"}}

TickFrameInputs == {[NoFrameInput EXCEPT !.shouldRender = b] : b \in BOOLEAN}

InitTick == InitXr

NextTick ==
    \/ \E spaceExt \in BOOLEAN :
          initialize("none", FALSE, spaceExt, FALSE, FALSE, 1, {"View", "Local"}, TRUE, 0, 0)
    \/ \E ev \in TickEvents : xrPollEvent_queued(ev)
    \/ \E in \in TickFrameInputs : processXrEvents(in)

SpecTick == InitTick /\ [][NextTick]_vars

\* whether the last Ready or Stopping in a log of session states is a Ready
RunningPerLog(log) ==
    LET marks == {i \in DOMAIN log : log[i] \in {"Ready", "Stopping"}}
    IN  marks # {} /\ log[Max(marks)] = "Ready"

\* the positions in the last tick's poll of the session-state events that
\* were handled for the manager's session
HandledInPoll ==
    {i \in DOMAIN tick.polled :
        /\ tick.polled[i].type = "SessionStateChanged"
        /\ tick.polled[i].session \in {0, m_session}}

\* C11: the session-running flag is true exactly when the last Ready or
\* Stopping event handled for the session is a Ready; a tick renders a frame
\* only if the flag is true after its poll, so none after a Stopping that no
\* Ready has followed.
C11_RunningFlag ==
    /\ m_sessionRunning = RunningPerLog(sessionLog)
    /\ tick.frames # <<>> => m_sessionRunning
    /\ (nTicks > 0 /\ m_sessionRunning) => tick.frames # <<>>

\* Witness of C11: the session ran, a tick handled a Stopping event and
\* rendered no frame.
C11_Witness ==
    /\ Len(sessionLog) >= 2
    /\ sessionLog[Len(sessionLog) - 1] = "Ready"
    /\ sessionLog[Len(sessionLog)] = "Stopping"
    /\ \E i \in HandledInPoll : tick.polled[i].state = "Stopping"
    /\ ~m_sessionRunning
    /\ tick.frames = <<>>

\* C12: when the last terminating session state a tick's poll handles is
\* Exiting, the poll reports exit without restart; when it is LossPending, exit
\* with restart; the tick emits sessionEnded and passes a reported restart
\* request on to its collaborators.
C12_ExitAndRestart ==
    \A i \in HandledInPoll :
        LET st == tick.polled[i].state
            last == \A j \in DOMAIN tick.polled :
                        j > i => /\ tick.polled[j].type # "InstanceLossPending"
                                 /\ j \in HandledInPoll
                                       => tick.polled[j].state \notin {"Exiting", "LossPending"}
        IN  (last /\ st \in {"Exiting", "LossPending"}) =>
                /\ tick.exitRenderLoop
                /\ tick.requestRestart = (st = "LossPending")
                /\ \E k \in DOMAIN tick.signals : tick.signals[k] = "sessionEnded"
                /\ tick.requestRestart =>
                      \E k \in DOMAIN tick.signals : tick.signals[k] = "restartRequested"

\* C13: xrBeginSession is called only with a session handle and only while
\* the session is not running.
C13_BeginOnlyOnce ==
    \A i \in DOMAIN tick.calls :
        tick.calls[i].fn = "xrBeginSession" =>
            /\ tick.calls[i].h # 0
            /\ tick.calls[i].res # "XR_ERROR_SESSION_RUNNING"

\* C14: a tick leaves no event pending in the runtime's queue when its poll
\* returns, and renders at most one frame.
C14_PollConsumesAll ==
    /\ tick.pending = 0
    /\ Len(tick.frames) <= 1


(***************************************************************************)
(* SpecFrame: frames of a running session, with passthrough switched on    *)
(* and off, multiview or one swapchain per view.                           *)
(***************************************************************************)
BlendModes == {"Opaque", "Additive"}

FrameEvents == {XrEvent("SessionStateChanged", "Ready", m_session)}

FrameInputs ==
    {[NoFrameInput EXCEPT !.shouldRender = sr, !.layerOk = lo, !.locateViewsOk = lv] :
        sr, lo, lv \in BOOLEAN}

InitFrame ==
    /\ PropertiesConstructed /\ KeyConstructed /\ CacheConstructed /\ RotationConstructed /\ ToolsConstructed
    /\ XrHandlesNull /\ TickConstructed
    /\ m_requestedReferenceSpace = "Local"
    /\ m_environmentBlendMode \in BlendModes

NextFrame ==
    \/ \E passthrough, multiview \in BOOLEAN, viewCount \in 1..MaxViews :
          initialize("none", FALSE, FALSE, passthrough, multiview, viewCount,
                     {"View", "Local"}, TRUE, 0, 0)
    \/ \E enabled, featureOk, layerOk \in BOOLEAN :
          setPassthroughEnabled(enabled, featureOk, layerOk)
    \/ \E ev \in FrameEvents : xrPollEvent_queued(ev)
    \/ \E in \in FrameInputs : processXrEvents(in)

SpecFrame == InitFrame /\ [][NextFrame]_vars

\* the positions in the last tick's call log of the calls to fn
CallsTo(fn) == {i \in DOMAIN tick.calls : tick.calls[i].fn = fn}

\* the calls of the last tick's call log that were given the swapchain h
SwapchainCalls(h) ==
    SelectSeq(tick.calls,
              LAMBDA c : /\ c.h = h
                         /\ c.fn \in {"xrAcquireSwapchainImage", "xrWaitSwapchainImage",
                                      "doRender", "xrReleaseSwapchainImage"})

\* C15: a tick that renders a frame calls xrWaitFrame, then xrBeginFrame,
\* then whatever it renders, then xrEndFrame, each of the three exactly once and
\* xrEndFrame last; a tick without a frame calls none of them.
C15_FrameSequence ==
    LET waits == CallsTo("xrWaitFrame")
        begins == CallsTo("xrBeginFrame")
        ends == CallsTo("xrEndFrame")
    IN  IF tick.frames = <<>>
        THEN waits \cup begins \cup ends = {}
        ELSE /\ Cardinality(waits) = 1 /\ Cardinality(begins) = 1 /\ Cardinality(ends) = 1
             /\ \A w \in waits, b \in begins, e \in ends :
                   /\ w < b /\ b < e
                   /\ e = Len(tick.calls)
                   /\ \A i \in DOMAIN tick.calls :
                         tick.calls[i].fn \in {"xrLocateViews", "xrAcquireSwapchainImage",
                                               "doRender", "xrReleaseSwapchainImage",
                                               "xrCreatePassthroughLayerFB"}
                            => b < i /\ i < e

\* Witness of C15: a frame that was to be rendered and whose xrLocateViews
\* failed, and that ended with xrEndFrame.
C15_Witness ==
    /\ tick.frames # <<>>
    /\ tick.frames[1].shouldRender
    /\ \E i \in CallsTo("xrLocateViews") : tick.calls[i].res # "XR_SUCCESS"
    /\ CallsTo("xrEndFrame") # {}

\* C16: a frame for which the runtime reports shouldRender = false submits
\* no projection layer (its layer list is the passthrough layer alone when
\* passthrough is enabled and supported, and empty otherwise) and acquires no
\* swapchain image.
C16_NoProjectionUnlessShouldRender ==
    \A i \in DOMAIN tick.frames :
        ~tick.frames[i].shouldRender =>
            /\ tick.frames[i].layers =
                  When(tick.frames[i].enablePassthrough /\ tick.frames[i].passthroughSupported,
                       <<"passthrough">>)
            /\ CallsTo("xrAcquireSwapchainImage") = {}

\* Witness of C16: a frame with shouldRender = false that submitted the
\* passthrough layer alone.
C16_Witness ==
    /\ tick.frames # <<>>
    /\ ~tick.frames[1].shouldRender
    /\ tick.frames[1].layers = <<"passthrough">>

\* C17: every end-frame uses the blend mode OPAQUE when the frame submits a
\* passthrough layer and the configured blend mode otherwise, and a submitted
\* passthrough layer comes before the projection layer.
C17_BlendMode ==
    \A i \in DOMAIN tick.frames :
        LET fr == tick.frames[i]
            passes == {k \in DOMAIN fr.layers : fr.layers[k] = "passthrough"}
            projs == {k \in DOMAIN fr.layers : fr.layers[k] = "projection"}
        IN  /\ fr.blendMode = IF passes # {} THEN "Opaque" ELSE fr.configured
            /\ \A a \in passes, b \in projs : a < b

\* C18: in a rendered frame every swapchain is acquired, waited for, rendered
\* to and released, in that order and once, so no swapchain has two images
\* outstanding and every image is released before xrEndFrame; a multiview frame
\* acquires one image, a frame with a swapchain per view one image per view.
C18_SwapchainSequence ==
    /\ \A i \in DOMAIN m_swapchains :
          SwapchainCalls(m_swapchains[i])
             \in { <<>>,
                   << XrCall("xrAcquireSwapchainImage", m_swapchains[i], "XR_SUCCESS"),
                      XrCall("xrWaitSwapchainImage", m_swapchains[i], "XR_SUCCESS"),
                      XrCall("doRender", m_swapchains[i], "XR_SUCCESS"),
                      XrCall("xrReleaseSwapchainImage", m_swapchains[i], "XR_SUCCESS") >> }
    /\ \A i \in CallsTo("xrAcquireSwapchainImage"), e \in CallsTo("xrEndFrame") :
          \E r \in CallsTo("xrReleaseSwapchainImage") :
              i < r /\ r < e /\ tick.calls[r].h = tick.calls[i].h
    /\ \A i \in DOMAIN tick.frames :
          Cardinality(CallsTo("xrAcquireSwapchainImage"))
             = IF "projection" \notin {tick.frames[i].layers[k] : k \in DOMAIN tick.frames[i].layers}
               THEN 0
               ELSE IF m_multiviewRendering THEN 1 ELSE m_views

\* Witness of C18: a rendered frame with one swapchain per view and two
\* views, which acquired two images.
C18_Witness ==
    /\ tick.frames # <<>>
    /\ ~m_multiviewRendering /\ m_views = 2
    /\ Cardinality(CallsTo("xrAcquireSwapchainImage")) = 2
    /\ Cardinality(CallsTo("xrReleaseSwapchainImage")) = 2


(***************************************************************************)
(* SpecSpace: the choice of the app space by initialize() and by the       *)
(* frames, for every requested type and every advertised set.              *)
(***************************************************************************)
RequestedSpaces == {"Local", "Stage", "LocalFloor"}
AdvertisedSets == SUBSET {"Local", "Stage", "LocalFloor"}

\* the heights at which the runtime locates the stage in the local space
StageHeights == {-2, 0}

SpaceInputs ==
    {[NoFrameInput EXCEPT !.shouldRender = sr, !.setupOk = so, !.floorFail = ff,
                          !.stageY = y] :
        sr, so \in BOOLEAN, ff \in {"none", "local", "stage", "locate", "app"},
        y \in StageHeights}

InitSpace ==
    /\ PropertiesConstructed /\ KeyConstructed /\ CacheConstructed /\ RotationConstructed /\ ToolsConstructed
    /\ XrHandlesNull /\ TickConstructed
    /\ m_requestedReferenceSpace \in RequestedSpaces
    /\ m_environmentBlendMode = "Opaque"

NextSpace ==
    \/ \E failAt \in {"appSpace", "none"}, advertised \in AdvertisedSets :
          initialize(failAt, FALSE, FALSE, FALSE, FALSE, 1, advertised, TRUE, 0, 0)
    \/ xrPollEvent_queued(XrEvent("SessionStateChanged", "Ready", m_session))
    \/ \E in \in SpaceInputs : processXrEvents(in)

SpecSpace == InitSpace /\ [][NextSpace]_vars

\* C19: a setupAppSpace() call asks for the requested type with emulation
\* off when that type is advertised; else, when LocalFloor is requested and
\* Stage is advertised, for Local with the emulation flag and the
\* floor-reset-pending flag set; otherwise for Local with emulation off.  After
\* initialize() the members hold what the call chose.
C19_SetupAppSpace ==
    /\ lastSetup # NoSetup =>
          IF lastSetup.requested \in lastSetup.advertised
          THEN lastSetup.type = lastSetup.requested /\ ~lastSetup.emulating
          ELSE IF lastSetup.requested = "LocalFloor" /\ "Stage" \in lastSetup.advertised
          THEN lastSetup.type = "Local" /\ lastSetup.emulating /\ lastSetup.pending
          ELSE lastSetup.type = "Local" /\ ~lastSetup.emulating
    /\ (xrPhase = "initialized" /\ nTicks = 0) =>
          /\ lastSetup.created
          /\ m_appSpace # 0
          /\ m_referenceSpace = lastSetup.type
          /\ m_isEmulatingLocalFloor = lastSetup.emulating
          /\ m_isFloorResetPending = lastSetup.pending

\* Witness of C19: setupAppSpace() was asked for LocalFloor with Stage but
\* not LocalFloor advertised, and created the space.
C19_Witness ==
    /\ lastSetup.requested = "LocalFloor"
    /\ lastSetup.advertised = {"Local", "Stage"}
    /\ lastSetup.created
    /\ lastSetup.type = "Local"
    /\ m_isEmulatingLocalFloor /\ m_isFloorResetPending

\* the manager initialized with LocalFloor requested and Stage but not
\* LocalFloor advertised
EmulationScenario ==
    /\ xrPhase = "initialized"
    /\ lastSetup.requested = "LocalFloor"
    /\ "Stage" \in lastSetup.advertised
    /\ "LocalFloor" \notin lastSetup.advertised

\* C20 as amended: in that scenario, after initialize() the emulation flag
\* and the pending flag are set and the app space exists already, as the
\* un-adjusted Local space; the current reference space becomes LocalFloor (the
\* floor-adjusted app space exists) only after a successful stage-locate.
C20_FloorSpaceAfterLocate ==
    EmulationScenario =>
        /\ m_isEmulatingLocalFloor
        /\ nTicks = 0 => m_isFloorResetPending /\ m_referenceSpace = "Local"
        /\ m_appSpace # 0 /\ m_appSpace \in liveHandles
        /\ m_referenceSpace \in {"Local", "LocalFloor"}
        /\ m_referenceSpace = "LocalFloor" => nStageLocates > 0

\* Witness of C20: in that scenario a frame located the stage space and the
\* current reference space became LocalFloor.
C20_Witness ==
    /\ EmulationScenario
    /\ m_referenceSpace = "LocalFloor"
    /\ nStageLocates = 1
    /\ ~m_isFloorResetPending

\* C20 as stated: in that scenario the emulation flag is set, the pending
\* flag is set after initialize(), and an app-space handle exists only after a
\* successful stage-locate.
C20_AppSpaceAfterLocate ==
    EmulationScenario =>
        /\ m_isEmulatingLocalFloor
        /\ nTicks = 0 => m_isFloorResetPending
        /\ m_appSpace # 0 => nStageLocates > 0

\* the tick that was just made rendered a frame in which the stage space was
\* located and no reference space creation failed
StageLocated ==
    /\ tick.frames # <<>>
    /\ \E i \in DOMAIN tick.calls :
          /\ tick.calls[i].fn = "xrLocateSpace"
          /\ tick.calls[i].h # m_viewSpace
          /\ tick.calls[i].res = "XR_SUCCESS"
    /\ \A i \in DOMAIN tick.calls :
          tick.calls[i].fn = "xrCreateReferenceSpace" => tick.calls[i].res = "XR_SUCCESS"

FloorResetFailed ==
    /\ tick.frames # <<>>
    /\ tick.frames[1].floorReset = "failed"

\* C22: a frame whose floor reset fails (the stage is not located, or a
\* space is not created) keeps the un-adjusted Local app space, sets the
\* requested space to Local and emits referenceSpaceChanged exactly once; and no
\* resetEmulatedFloorHeight() call is ever made after a failed one.
C22_NoRetryAfterFailure ==
    /\ [][ (nTicks' # nTicks /\ FloorResetFailed')
              => /\ m_appSpace' = m_appSpace
                 /\ m_appSpace' \in liveHandles'
                 /\ appSpaceCreateInfo' = CreateInfo("Local", 0)
                 /\ m_referenceSpace' = "Local"
                 /\ m_requestedReferenceSpace' = "Local"
                 /\ ~m_isFloorResetPending'
                 /\ tick'.signals = <<"referenceSpaceChanged">> ]_vars
    /\ [](\A i \in DOMAIN floorResets : ~floorResets[i] => i = Len(floorResets))

\* Witness of C22: a floor reset failed and a later tick rendered a frame.
C22_Witness ==
    /\ floorResets = <<FALSE>>
    /\ tick.frames # <<>>
    /\ tick.frames[1].shouldRender
    /\ tick.frames[1].floorReset = "none"
    /\ m_requestedReferenceSpace = "Local"

\* the tick that was just made rendered a frame whose rebuild of the app
\* space failed
RebuildFailed ==
    /\ tick.frames # <<>>
    /\ tick.frames[1].rebuild = "failed"

\* C23: a frame that finds the requested reference space different from the
\* current one and fails to rebuild the app space reverts the requested space
\* to the current one, leaves the app space and the current type as they were,
\* emits nothing, and goes on to locate the views and to render.
C23_RebuildFailureReverts ==
    [][ (nTicks' # nTicks /\ RebuildFailed')
           => /\ m_requestedReferenceSpace # m_referenceSpace
              /\ m_requestedReferenceSpace' = m_referenceSpace
              /\ m_referenceSpace' = m_referenceSpace
              /\ m_appSpace' = m_appSpace
              /\ appSpaceCreateInfo' = appSpaceCreateInfo
              /\ m_appSpace' \in liveHandles'
              /\ tick'.signals = <<>>
              /\ \E i \in DOMAIN tick'.calls :
                    /\ tick'.calls[i].fn = "xrLocateViews"
                    /\ (tick'.calls[i].res = "XR_SUCCESS"
                           => /\ "projection" \in {tick'.frames[1].layers[k] :
                                                      k \in DOMAIN tick'.frames[1].layers}
                              /\ \E j \in DOMAIN tick'.calls :
                                    i < j /\ tick'.calls[j].fn = "doRender") ]_vars

\* Witness of C23: a frame whose rebuild failed and that rendered.
C23_Witness ==
    /\ RebuildFailed
    /\ \E j \in DOMAIN tick.calls : tick.calls[j].fn = "doRender"
    /\ m_requestedReferenceSpace = m_referenceSpace

(***************************************************************************)
(* SpecSetup: initialize() with every step and every swapchain creation    *)
(* failing or not, then the operations of the manager.  The frames of a    *)
(* manager that holds a swapchain the runtime did not create are not       *)
(* followed.                                                               *)
(***************************************************************************)
SwapchainsCreated ==
    \A i \in DOMAIN m_swapchains : m_swapchains[i] \in liveHandles

SetupInputs ==
    {[NoFrameInput EXCEPT !.shouldRender = sr, !.locateViewsOk = lv] : sr, lv \in BOOLEAN}

InitSetup == InitXr

NextSetup ==
    \/ \E failAt \in {InitSteps[i] : i \in DOMAIN InitSteps},
          multiview, rhiMultiView \in BOOLEAN,
          viewCount \in 1..MaxViews, swapFail \in 0..MaxViews,
          stale \in {0, StaleHandle} :
          initialize(failAt, FALSE, FALSE, FALSE, multiview, viewCount,
                     {"View", "Local", "Stage"}, rhiMultiView, swapFail, stale)
    \/ \E enabled \in BOOLEAN : setPassthroughEnabled(enabled, TRUE, TRUE)
    \/ xrPollEvent_queued(XrEvent("SessionStateChanged", "Ready", m_session))
    \/ SwapchainsCreated /\ \E in \in SetupInputs : processXrEvents(in)
    \/ teardown

SpecSetup == InitSetup /\ [][NextSetup]_vars

\* the resources of kind res created so far
CreatedOf(res) == {i \in DOMAIN xrCreated : xrCreated[i].res = res}

\* C24: when the creation of the session, the app space, the view space or
\* a swapchain fails, initialize() returns false and has taken none of the
\* steps that depend on it: no swapchain without app space and view space, no
\* space without session, and it never returns true holding a swapchain that
\* was not created.
C24_InitializeAborts ==
    lastInitialize.called =>
        /\ (lastInitialize.failAt \in {"session", "appSpace", "viewSpace"}
               \/ lastInitialize.swapFail # 0) => ~lastInitialize.returned
        /\ CreatedOf("swapchain") # {}
              => CreatedOf("appSpace") # {} /\ CreatedOf("viewSpace") # {}
        /\ CreatedOf("appSpace") \cup CreatedOf("viewSpace") # {}
              => CreatedOf("session") # {}
        /\ (lastInitialize.returned /\ xrPhase = "initialized") => SwapchainsCreated

\* C25: whenever initialize() returns false the error string is not empty.
C25_ErrorStringOnFailure ==
    (lastInitialize.called /\ ~lastInitialize.returned) => m_errorString # ""

\* C27: once initialize() has created the swapchains nothing changes
\* m_multiviewRendering, and as long as the swapchains exist there is one
\* swapchain of array size m_views with multiview rendering and one swapchain
\* per view without it.
C27_DispatchFixed ==
    /\ [][ (xrPhase \in {"initialized", "tornDown"})
              => (m_multiviewRendering' = m_multiviewRendering) ]_vars
    /\ [](xrPhase = "initialized"
             => IF m_multiviewRendering
                THEN /\ Len(m_swapchains) = 1
                     /\ m_swapchainArraySize[1] = m_views
                ELSE Len(m_swapchains) = m_views)

\* Witness of C27: a manager without multiview rendering whose
\* two views have a swapchain each, and a frame it rendered.
C27_Witness ==
    /\ xrPhase = "initialized"
    /\ ~m_multiviewRendering
    /\ Len(m_swapchains) = MaxViews
    /\ SwapchainsCreated
    /\ m_views = MaxViews
    /\ Cardinality(CallsTo("doRender")) = MaxViews

(***************************************************************************)
(* SpecRender: the frames of an initialized manager, the runtime reporting *)
(* display times, display periods and head poses and failing to locate the *)
(* views or the head.  Predicted display times increase from frame to      *)
(* frame.                                                                  *)
(***************************************************************************)
\* predicted display times and periods, in ns
DisplayTimes == {10500000, 20000000, 27900000, 90000000}
DisplayPeriods == {11111111, 16666666}

\* head poses the runtime reports, in metres
HeadPoses == {[position |-> 1, rotation |-> 1], [position |-> 2, rotation |-> 0]}

RenderInputs ==
    {[NoFrameInput EXCEPT !.shouldRender = sr, !.locateViewsOk = lv, !.headOk = ho,
                          !.headPose = hp, !.predictedDisplayTime = t,
                          !.predictedDisplayPeriod = per] :
        sr, lv, ho \in BOOLEAN, hp \in HeadPoses, t \in DisplayTimes,
        per \in DisplayPeriods}

InitRender == InitXr

NextRender ==
    \/ \E multiview \in BOOLEAN :
          initialize("none", FALSE, FALSE, FALSE, multiview, MaxViews, {"View", "Local"},
                     TRUE, 0, 0)
    \/ xrPollEvent_queued(XrEvent("SessionStateChanged", "Ready", m_session))
    \/ \E in \in RenderInputs :
          /\ in.predictedDisplayTime > m_previousTime
          /\ processXrEvents(in)

SpecRender == InitRender /\ [][NextRender]_vars

\* the results of the calls to fn given the handle h in the last tick
ResultsOf(fn, h) ==
    {tick.calls[i].res : i \in {j \in CallsTo(fn) : tick.calls[j].h = h}}

\* the last tick rendered a frame whose xrLocateViews failed
LocateViewsFailed ==
    /\ tick.frames # <<>>
    /\ \E i \in CallsTo("xrLocateViews") : tick.calls[i].res # "XR_SUCCESS"

\* C26: a frame whose xrLocateViews fails updates no camera, acquires no
\* swapchain image, renders nothing and submits no projection layer; it still
\* ends with xrEndFrame, and the tick posts the next update request.
C26_LocateViewsFailureSkipsFrame ==
    [][ (nTicks' # nTicks /\ LocateViewsFailed')
           => /\ tick'.frames[1].cameraUpdates = <<>>
              /\ camera' = camera
              /\ tick'.frames[1].steps = <<>>
              /\ m_previousTime' = m_previousTime
              /\ CallsTo("xrAcquireSwapchainImage")' = {}
              /\ CallsTo("doRender")' = {}
              /\ "projection" \notin {tick'.frames[1].layers[k] :
                                         k \in DOMAIN tick'.frames[1].layers}
              /\ tick'.calls[Len(tick'.calls)].fn = "xrEndFrame"
              /\ tick'.updates = 1 ]_vars

\* Witness of C26: a frame whose xrLocateViews failed, after a frame that
\* had set the head camera.
C26_Witness ==
    /\ LocateViewsFailed
    /\ camera # NoPose
    /\ CallsTo("xrEndFrame") # {}

\* the last tick rendered a frame to the swapchains
Rendered ==
    /\ tick.frames # <<>>
    /\ CallsTo("doRender") # {}

\* C28: in a rendered frame the animation driver is given one step, in whole
\* milliseconds: the display period in the first rendered frame, and the lesser
\* of the display period and the time since the predicted display time of the
\* previous rendered frame in the others; it never exceeds the display period.
C28_AnimationStep ==
    [][ (nTicks' # nTicks /\ Rendered')
           => LET fr == tick'.frames[1]
                  elapsed == fr.predictedDisplayTime - m_previousTime
                  due == IF m_previousTime = 0 THEN fr.predictedDisplayPeriod
                         ELSE Min({elapsed, fr.predictedDisplayPeriod})
              IN  /\ Len(fr.steps) = 1
                  /\ fr.steps[1] * NsPerMs <= due
                  /\ due < (fr.steps[1] + 1) * NsPerMs
                  /\ fr.steps[1] * NsPerMs <= fr.predictedDisplayPeriod
                  /\ m_previousTime' = fr.predictedDisplayTime ]_vars

\* Witness of C28: a frame displayed 62.1 ms after the previous one with a
\* display period of 16.666666 ms was given the step 16.
C28_Witness ==
    /\ Rendered
    /\ tick.frames[1].predictedDisplayTime = 90000000
    /\ tick.frames[1].predictedDisplayPeriod = 16666666
    /\ tick.frames[1].advances = 1
    /\ tick.frames[1].steps = <<16>>

\* the last tick rendered a frame in which the head was not located
HeadNotLocated ==
    /\ Rendered
    /\ ResultsOf("xrLocateSpace", m_viewSpace) = {"XR_ERROR_RUNTIME_FAILURE"}

\* C29: a rendered frame in which locating the view space in the app space
\* fails leaves the head camera's position and rotation as the previous frame
\* left them, and renders and submits its projection layer all the same.
C29_HeadPoseBestEffort ==
    [][ (nTicks' # nTicks /\ HeadNotLocated')
           => /\ camera' = camera
              /\ "head" \notin {tick'.frames[1].cameraUpdates[k] :
                                   k \in DOMAIN tick'.frames[1].cameraUpdates}
              /\ Cardinality(CallsTo("doRender")')
                    = IF m_multiviewRendering THEN 1 ELSE m_views
              /\ "projection" \in {tick'.frames[1].layers[k] :
                                      k \in DOMAIN tick'.frames[1].layers} ]_vars

\* Witness of C29: the head was not located in a rendered frame and the
\* camera holds the pose of an earlier frame, 2 m as 200 cm.
C29_Witness ==
    /\ HeadNotLocated
    /\ camera = [position |-> 200, rotation |-> 0]

(***************************************************************************)
(* SpecOrigin: frames of a scene that may hold no XrOrigin.                *)
(***************************************************************************)
OriginInputs ==
    {[NoFrameInput EXCEPT !.shouldRender = sr, !.headOk = ho, !.headPose = hp,
                          !.originInScene = os, !.nullDeref = nd] :
        sr, ho, os \in BOOLEAN, hp \in HeadPoses, nd \in {"crash", "continues"}}

InitOrigin == InitXr

NextOrigin ==
    \/ \E multiview \in BOOLEAN :
          initialize("none", FALSE, FALSE, FALSE, multiview, MaxViews, {"View", "Local"},
                     TRUE, 0, 0)
    \/ xrPollEvent_queued(XrEvent("SessionStateChanged", "Ready", m_session))
    \/ \E in \in OriginInputs : processXrEvents(in)

SpecOrigin == InitOrigin /\ [][NextOrigin]_vars

\* C37: renderLayer() never calls through a null m_xrOrigin: in a rendered
\* frame of a scene without XrOrigin the head camera update is skipped, also
\* when the head pose is located.
C37_NoNullOrigin ==
    /\ ~crashed
    /\ tick.frames # <<>> => tick.frames[1].nullDerefs = 0

(***************************************************************************)
(* SpecRotation: writes to and reads of one RotationData.                  *)
(***************************************************************************)
MaxRotationOps == 4

EulerInputs == {-1, 0, 1, 3, 4}
QuaternionInputs == {0, 1, 3}

\* one operation on the RotationData: after is what it leaves, result what
\* it returns
RotationOp(op, value, after, result) ==
    /\ nRotationOps < MaxRotationOps
    /\ nRotationOps' = nRotationOps + 1
    /\ rotation' = after
    /\ rotationOp' = [op |-> op, value |-> value, before |-> rotation, result |-> result]
    /\ UNCHANGED <<initVars, keyVars, cacheVars, xrVars, toolVars>>

constructFromEuler(r) == RotationOp("constructEuler", r, RotationData_fromEuler(r), 0)
constructFromQuaternion(r) ==
    RotationOp("constructQuaternion", r, RotationData_fromQuaternion(r), 0)
writeEuler(r) == RotationOp("assignEuler", r, assignEuler(rotation, r), 0)
writeQuaternion(r) == RotationOp("assignQuaternion", r, assignQuaternion(rotation, r), 0)
readQuaternion ==
    RotationOp("toQuaternion", 0, toQuaternion(rotation), toQuaternion(rotation).m_quatRot)
readEuler ==
    RotationOp("toVector3D", 0, toVector3D(rotation), toVector3D(rotation).m_eulerRot)
\* operator==(rotation, RotationData{}): both are read as quaternions
compareToDefault ==
    RotationOp("equals", 0, toQuaternion(rotation),
               IF toQuaternion(rotation).m_quatRot = toQuaternion(RotationData).m_quatRot
               THEN 1 ELSE 0)

InitRotation ==
    /\ PropertiesConstructed /\ KeyConstructed /\ CacheConstructed /\ RotationConstructed /\ ToolsConstructed
    /\ XrConstructed

NextRotation ==
    \/ \E r \in EulerInputs : constructFromEuler(r)
    \/ \E r \in QuaternionInputs : constructFromQuaternion(r)
    \/ \E r \in EulerInputs : writeEuler(r)
    \/ \E r \in QuaternionInputs : writeQuaternion(r)
    \/ readQuaternion
    \/ readEuler
    \/ compareToDefault

SpecRotation == InitRotation /\ [][NextRotation]_vars

\* the rotation a RotationData stands for, as a quaternion
Denoted(rd) ==
    IF rd.m_dirty = "Quaternion" THEN fromEulerAngles(rd.m_eulerRot) ELSE rd.m_quatRot

\* C30: a default-constructed RotationData is not dirty; constructing from
\* or assigning Euler angles leaves exactly the quaternion dirty, constructing
\* from or assigning a quaternion exactly the Euler angles; reading the dirty
\* representation recomputes it from the other and clears the flag; every write
\* takes effect, so that the value stands for the rotation written last and an
\* Euler write followed by an identity-quaternion write equals the default.
C30_DirtyStateMachine ==
    /\ rotationOp.op = "none" => rotation.m_dirty = "None"
    /\ rotationOp.op \in {"constructEuler", "assignEuler"}
          => /\ rotation.m_dirty = "Quaternion"
             /\ rotation.m_eulerRot = rotationOp.value
             /\ Denoted(rotation) = fromEulerAngles(rotationOp.value)
    /\ rotationOp.op \in {"constructQuaternion", "assignQuaternion"}
          => /\ rotation.m_dirty = "Euler"
             /\ rotation.m_quatRot = rotationOp.value
             /\ Denoted(rotation) = rotationOp.value
    /\ rotationOp.op \in {"toQuaternion", "equals"}
          => /\ rotation.m_dirty # "Quaternion"
             /\ rotationOp.before.m_dirty = "Quaternion" => rotation.m_dirty = "None"
             /\ rotation.m_quatRot = Denoted(rotationOp.before)
             /\ Denoted(rotation) = Denoted(rotationOp.before)
    /\ rotationOp.op = "toVector3D"
          => /\ rotation.m_dirty # "Euler"
             /\ rotationOp.before.m_dirty = "Euler"
                   => /\ rotation.m_dirty = "None"
                      /\ rotation.m_eulerRot = toEulerAngles(rotationOp.before.m_quatRot)
             /\ fromEulerAngles(rotationOp.result) = Denoted(rotationOp.before)
    /\ (rotationOp.op = "equals" /\ rotationOp.before.m_dirty = "Euler"
           /\ rotationOp.before.m_quatRot = 0)
          => rotationOp.result = 1

\* Witness of C30: an identity quaternion was written over a RotationData
\* whose quaternion was dirty after an Euler write, and the result compared
\* equal to the default.
C30_Witness ==
    /\ rotationOp.op = "equals"
    /\ rotationOp.result = 1
    /\ rotationOp.before = [m_quatRot |-> 0, m_eulerRot |-> 1, m_dirty |-> "Euler"]

\* C36: whatever the order of setPassthroughEnabled(), initialize() and the
\* frames, m_passthroughFeature is non-null at every call of
\* createMetaQuestPassthroughLayer(): at those renderFrame() makes, and at the
\* one setPassthroughEnabled() makes when passthrough is switched on.
C36_LayerNeedsFeature ==
    [][ /\ nTicks' # nTicks
           => \A i \in DOMAIN tick'.calls :
                 tick'.calls[i].fn = "xrCreatePassthroughLayerFB" => tick'.calls[i].h # 0
        /\ (/\ ~m_enablePassthrough /\ m_enablePassthrough'
            /\ m_passthroughSupported /\ m_passthroughLayer = 0)
           => m_passthroughFeature' # 0 ]_vars

\* C35: every xrDestroy* call of teardown() is given a handle that is live
\* (created and not yet destroyed) when the call is made: none is null after an
\* initialize() that failed early, and none is destroyed again by a second
\* teardown().
C35_TeardownDestroysLive ==
    [][ nTeardowns' # nTeardowns
          => \A i \in DOMAIN xrReleased' :
                xrReleased'[i].res \notin {"inputManager", "spaceExtension"}
                   => /\ xrReleased'[i].handle # 0
                      /\ xrReleased'[i].handle \in liveHandles
                      /\ \A j \in 1..(i - 1) :
                            xrReleased'[j].handle # xrReleased'[i].handle ]_vars

\* the tick that was just made polled events, all of them session state
\* changes of another, non-null session
ForeignSessionOnly ==
    /\ tick.polled # <<>>
    /\ \A i \in DOMAIN tick.polled :
          /\ tick.polled[i].type = "SessionStateChanged"
          /\ tick.polled[i].session \notin {0, m_session}

\* C34: a session state change that names another, non-null session is
\* ignored: the recorded session state, the session-running flag and the exit
\* and restart outputs are as they were, and no session is begun or ended.
C34_ForeignSessionIgnored ==
    [][ (nTicks' # nTicks /\ ForeignSessionOnly')
          => /\ m_sessionState' = m_sessionState
             /\ m_sessionRunning' = m_sessionRunning
             /\ ~tick'.exitRenderLoop /\ ~tick'.requestRestart
             /\ \A i \in DOMAIN tick'.calls :
                   tick'.calls[i].fn \notin {"xrBeginSession", "xrEndSession"} ]_vars

\* the tick that was just made rendered a frame, so updateAppSpace() ran
FrameRendered ==
    /\ tick.frames # <<>>
    /\ tick.frames[1].shouldRender

\* C33: after a frame in which updateAppSpace() ran and that leaves no floor
\* reset pending, the requested reference space equals the current one; and a
\* frame that follows a rendered frame does not rebuild the app space again,
\* so that one request causes at most one rebuild and one emission.
C33_ReconciliationConverges ==
    [][ nTicks' # nTicks =>
          /\ (FrameRendered' /\ ~m_isFloorResetPending')
                => m_requestedReferenceSpace' = m_referenceSpace'
          /\ (FrameRendered /\ FrameRendered') => tick'.frames[1].rebuild = "none" ]_vars

\* C38: every processed UpdateRequest tick posts exactly one new
\* UpdateRequest, whether or not the session is running, also the tick that
\* emits sessionEnded and the ticks after it.
C38_TickRepostsUpdate == nTicks > 0 => tick.updates = 1

\* Witness of C38: a tick after the one that processed Exiting (and emitted
\* sessionEnded) polled nothing, rendered nothing and posted its UpdateRequest.
C38_Witness ==
    /\ nTicks >= 2
    /\ \E i \in DOMAIN sessionLog : sessionLog[i] = "Exiting"
    /\ tick.polled = <<>>
    /\ tick.signals = <<>>
    /\ ~m_sessionRunning
    /\ tick.updates = 1

\* C39: in every reachable state of the manager a pending floor reset implies
\* that the local floor is emulated, so the assertion at the entry of
\* resetEmulatedFloorHeight() holds whenever it is called.
C39_PendingImpliesEmulating ==
    /\ m_isFloorResetPending => m_isEmulatingLocalFloor
    /\ (tick.frames # <<>> /\ tick.frames[1].floorReset # "none") => m_isEmulatingLocalFloor

\* Witness of C39: a frame called resetEmulatedFloorHeight() for the reset
\* that initialize() had left pending.
C39_Witness ==
    /\ EmulationScenario
    /\ nTicks > 0
    /\ tick.frames # <<>>
    /\ tick.frames[1].floorReset # "none"
    /\ ~m_isFloorResetPending

\* the kinds of resource in a log
KindsIn(log) == {log[i].res : i \in DOMAIN log}

\* the place the claimed teardown order gives a kind of resource
TeardownRank(res) ==
    CASE res = "inputManager" -> 1
      [] res = "spaceExtension" -> 2
      [] res = "passthroughLayer" -> 3
      [] res = "passthroughFeature" -> 4
      [] res = "swapchain" -> 5
      [] res \in {"appSpace", "viewSpace"} -> 6
      [] res = "session" -> 7
      [] res = "debugMessenger" -> 8
      [] res = "instance" -> 9

\* C9: the releases of a teardown() come in the order input manager, space
\* extension, passthrough layer, passthrough feature, swapchains, app/view
\* spaces, session, debug messenger, instance, each after all earlier ones.
C9_TeardownOrder ==
    \A i, j \in DOMAIN xrReleased :
        i < j =>
            \/ TeardownRank(xrReleased[i].res) < TeardownRank(xrReleased[j].res)
            \/ /\ TeardownRank(xrReleased[i].res) = TeardownRank(xrReleased[j].res)
               /\ xrReleased[i].res \in {"swapchain", "appSpace", "viewSpace"}
               /\ xrReleased[i] # xrReleased[j]

\* Witness of C9: a teardown() released a resource of each of the ten
\* kinds, two swapchains among them.
C9_Witness ==
    /\ KindsIn(xrReleased)
          = { "inputManager", "spaceExtension", "passthroughLayer", "passthroughFeature",
              "swapchain", "appSpace", "viewSpace", "session", "debugMessenger",
              "instance" }
    /\ Cardinality({i \in DOMAIN xrReleased : xrReleased[i].res = "swapchain"}) = 2

\* C10 as amended: in a teardown() every resource is released before the
\* resources its creation call was given (the passthrough layer before the
\* passthrough feature, everything created from the session before the
\* session, everything created from the instance before the instance).
C10_DependencyOrder ==
    \A i, j \in DOMAIN xrReleased :
        xrReleased[j].res \in CreatedFrom(xrReleased[i].res) => i < j

\* Witness of C10: a teardown() of a fully initialized manager with both
\* passthrough objects, which released each of them.
C10_Witness ==
    /\ xrPhase = "tornDown"
    /\ KindsIn(xrCreated) \subseteq KindsIn(xrReleased)
    /\ {"passthroughLayer", "passthroughFeature", "swapchain", "viewSpace"}
          \subseteq KindsIn(xrCreated)
    /\ \E i, j \in DOMAIN xrReleased :
          /\ i < j
          /\ xrReleased[i].res = "passthroughLayer"
          /\ xrReleased[j].res = "passthroughFeature"

\* C10 as stated: of two resources of different kinds, the one created
\* later is released earlier.
C10_ReverseCreationOrder ==
    \A a, b \in DOMAIN xrCreated :
        (a < b /\ xrCreated[a].res # xrCreated[b].res) =>
            \A i, j \in DOMAIN xrReleased :
                (xrReleased[i].res = xrCreated[a].res
                    /\ xrReleased[j].res = xrCreated[b].res) => j < i

\* ---------------------------------------------------------------------------
\* QPRand: init, setDeterministic and the two get functions, in any order
\* ---------------------------------------------------------------------------

MaxGets == 2
Seeds == {1, 2}
ListSizes == {2, 3}
ParticleIndices == {0, 1}
Users == {Default, DeterministicSeparator, LifeSpanV}

\* init(seed, size)
QPRand_init(seed, size) ==
    /\ m_size' = size
    /\ m_generator' = generatorAfter(seedGenerator(seed), size)
    /\ m_randomList' = drawRandomList(seedGenerator(seed), size)
    /\ gets' = <<>>
    /\ nGets' = 0
    /\ UNCHANGED <<m_index, m_deterministic>>
    /\ UNCHANGED <<initVars, keyVars, cacheVars, xrVars, rotVars, uniformVars>>

\* setDeterministic(deterministic)
QPRand_setDeterministic(deterministic) ==
    /\ m_deterministic # deterministic
    /\ m_deterministic' = deterministic
    /\ UNCHANGED <<m_generator, m_size, m_index, m_randomList, gets, nGets>>
    /\ UNCHANGED <<initVars, keyVars, cacheVars, xrVars, rotVars, uniformVars>>

\* a get(particleIndex, user) call after init()
QPRand_get_call(particleIndex, user) ==
    /\ m_size > 0
    /\ nGets < MaxGets
    /\ m_index' = QPRand_get(QPRandMembers, particleIndex, user).m_index
    /\ gets' = Append(gets, [particleIndex |-> particleIndex, user |-> user,
                             deterministic |-> m_deterministic, m_index |-> m_index,
                             value |-> QPRand_get(QPRandMembers, particleIndex, user).value])
    /\ nGets' = nGets + 1
    /\ UNCHANGED <<m_generator, m_size, m_deterministic, m_randomList>>
    /\ UNCHANGED <<initVars, keyVars, cacheVars, xrVars, rotVars, uniformVars>>

\* a get() call after init()
QPRand_getNext_call ==
    /\ m_size > 0
    /\ m_index' = QPRand_getNext(QPRandMembers).m_index
    /\ m_index' # m_index
    /\ UNCHANGED <<m_generator, m_size, m_deterministic, m_randomList, gets, nGets>>
    /\ UNCHANGED <<initVars, keyVars, cacheVars, xrVars, rotVars, uniformVars>>

InitRand ==
    /\ PropertiesConstructed /\ KeyConstructed /\ CacheConstructed /\ RotationConstructed
    /\ ToolsConstructed /\ XrConstructed

NextRand ==
    \/ \E seed \in Seeds, size \in ListSizes : QPRand_init(seed, size)
    \/ \E deterministic \in BOOLEAN : QPRand_setDeterministic(deterministic)
    \/ \E particleIndex \in ParticleIndices, user \in Users : QPRand_get_call(particleIndex, user)
    \/ QPRand_getNext_call

SpecRand == InitRand /\ [][NextRand]_vars

SameArguments(a, b) == a.particleIndex = b.particleIndex /\ a.user = b.user

MaxUniformOps == 3
UniformNames == {"a", "b"}
Uniform(type, name) == [type |-> type, name |-> name, value |-> defaultValue(type)]
\* the tables handed to setModelData: their names are distinct
UniformTables ==
    {<<>>, <<Uniform("Bool", "a")>>, <<Uniform("Int", "a"), Uniform("Bool", "b")>>}
Variants == {[kind |-> "int", v |-> 1], [kind |-> "string", v |-> "a"],
             [kind |-> "string", v |-> "b"]}
Roles == {"Type", "Name", "Value"}
RowIndices == 0..2
RowCounts == 0..2

UniformCall(op, row, result) ==
    /\ nUniformOps < MaxUniformOps
    /\ uniformOp' = [op |-> op, row |-> row, result |-> result]
    /\ nUniformOps' = nUniformOps + 1
    /\ UNCHANGED <<initVars, keyVars, cacheVars, xrVars, rotVars, randVars>>

\* setModelData(data)
UniformModel_setModelData(data) ==
    /\ m_uniformTable' = [null |-> FALSE, rows |-> data]
    /\ UniformCall("setModelData", 0, TRUE)

\* insertRow(rowIndex, type, id), rowIndex a position of the table or its end
UniformModel_insertRow(rowIndex, type, id) ==
    /\ m_uniformTable.null \/ rowIndex <= Len(m_uniformTable.rows)
    /\ IF validateUniformName(m_uniformTable, id)
       THEN /\ m_uniformTable' = [m_uniformTable EXCEPT !.rows =
                                     InsertAt(@, rowIndex, Uniform(toUniformType(type), id))]
            /\ UniformCall("insertRow", rowIndex, TRUE)
       ELSE /\ UNCHANGED m_uniformTable
            /\ UniformCall("insertRow", rowIndex, FALSE)

\* removeRow(rowIndex, rows), the rows removed lying within the table
UniformModel_removeRow(rowIndex, rows) ==
    /\ ~m_uniformTable.null
    /\ Len(m_uniformTable.rows) > rowIndex
    /\ rowIndex + qBound(1, rows, Len(m_uniformTable.rows)) <= Len(m_uniformTable.rows)
    /\ m_uniformTable' = [m_uniformTable EXCEPT !.rows =
                             RemoveAt(@, rowIndex, qBound(1, rows, Len(m_uniformTable.rows)))]
    /\ UniformCall("removeRow", rowIndex, TRUE)

\* setData(index, value, role) with a valid index
UniformModel_setData_call(row, value, role) ==
    IF m_uniformTable.null \/ row >= Len(m_uniformTable.rows)
    THEN /\ UNCHANGED m_uniformTable
         /\ UniformCall("setData", row, FALSE)
    ELSE /\ m_uniformTable' = [m_uniformTable EXCEPT !.rows[row + 1] =
                                  UniformModel_setData(@, value, role).uniform]
         /\ UniformCall("setData", row, UniformModel_setData(m_uniformTable.rows[row + 1], value, role).ok)

InitUniform ==
    /\ PropertiesConstructed /\ KeyConstructed /\ CacheConstructed /\ RotationConstructed
    /\ ToolsConstructed /\ XrConstructed

NextUniform ==
    \/ \E data \in UniformTables : UniformModel_setModelData(data)
    \/ \E rowIndex \in RowIndices, type \in DOMAIN UniformTypes, id \in UniformNames :
          UniformModel_insertRow(rowIndex, type - 1, id)
    \/ \E rowIndex \in RowIndices, rows \in RowCounts : UniformModel_removeRow(rowIndex, rows)
    \/ \E row \in RowIndices, value \in Variants, role \in Roles :
          UniformModel_setData_call(row, value, role)

SpecUniform == InitUniform /\ [][NextUniform]_vars

\* C32: no two rows of the table have the same name, after any sequence of
\* insertRow, removeRow and setData calls on a table that started with
\* distinct names.
C32_UniqueNames ==
    \A i, j \in DOMAIN m_uniformTable.rows :
        i # j => m_uniformTable.rows[i].name # m_uniformTable.rows[j].name

====
